---------------------------- MODULE Spec2Model ----------------------------
(***************************************************************************)
(* A model of the NCD file builder and reader (ens-ds23/ncd).              *)
(*                                                                         *)
(* The output file is a sequence of bytes.  The writer (write.rs) and the  *)
(* reader (read.rs) work on those bytes through the codec of bitbash.rs    *)
(* and the geometry of header.rs; the build driver is build.rs.            *)
(*                                                                         *)
(* Offsets are 0-based as in the source; byte o of a buffer b is b[o+1].   *)
(* A fallible result is a record [ok, v, e]: Ok(v) or Err(e).              *)
(***************************************************************************)
EXTENDS Integers, Sequences, FiniteSets, TLC

(***************************************************************************)
(* Bounds of the model.                                                    *)
(***************************************************************************)
\* longest source (number of (key, value) pairs yielded)
MaxSrcLen == 3
\* latest second the clock of make_stamp reaches
MaxTime == 2
\* a write attempt is only started on a header of at most this many pages
MaxPages == 4
\* longest source of the builds whose retry loop is followed to its end
MaxLiveLen == 2
\* longest source of the builds whose records are as long as the threshold
MaxThresholdLen == 2

(***************************************************************************)
(* Program constants.                                                      *)
(***************************************************************************)
HEADER_SIZE == 28
MAGIC_NUMBER == 1308672254
MAX_LESQLITE2_BYTES == 9
C0 == 178
C1 == 16562
C2 == 540850
\* the smallest external threshold, initial_header_guess's .max(16)
MIN_THRESHOLD == 16
\* 65536: the page size from which pointers are 4 bytes wide
PTR_LIMIT == 65536

Ok(x) == [ok |-> TRUE, v |-> x, e |-> ""]
Err(msg) == [ok |-> FALSE, v |-> <<>>, e |-> msg]
\* a panic of the Rust code (a division by zero, an overflow of a debug build, a
\* slice out of range): what the call gives in place of a value or an error
Panic == Err("panic")

Max(a, b) == IF a > b THEN a ELSE b
Min(a, b) == IF a < b THEN a ELSE b

\* vec![b; n]
Fill(b, n) == [i \in 1..n |-> b]

(***************************************************************************)
(* bitbash.rs: fixed-width little-endian integers.                         *)
(*                                                                         *)
(* TLC's integers are 32-bit signed.  A u32 read from the file is kept as  *)
(* its two's-complement image (0xFFFFFFFF is -1), which is one-to-one, so  *)
(* that equality of two u32 values is exact; a value used as an offset is  *)
(* out of every buffer of the model when its image is negative.  The u64   *)
(* fields the model writes are below 2^31, and a u64 read whose high bytes *)
(* are not zero is kept as BEYOND, larger than every length of the model.  *)
(* A lesqlite2 value of 2^64 - 2^24 or more is kept as its two's-complement *)
(* image, a negative number: added to an offset of the model it overflows  *)
(* the 64-bit usize exactly when the sum of the images is not negative.    *)
(***************************************************************************)
BEYOND == 16777216

Byte(x, i) == (x \div (256 ^ i)) % 256

u32_bytes(value) == <<Byte(value, 0), Byte(value, 1), Byte(value, 2), Byte(value, 3)>>
u16_bytes(value) == <<Byte(value, 0), Byte(value, 1)>>
u64_bytes(value) == u32_bytes(value) \o <<0, 0, 0, 0>>

read_u32(bytes, offset) ==
    IF Len(bytes) < offset + 4 THEN Err("CorruptNCDFile")
    ELSE LET b == [i \in 0..3 |-> bytes[offset + 1 + i]]
         IN  Ok(b[0] + 256 * b[1] + 65536 * b[2]
                + 16777216 * (IF b[3] < 128 THEN b[3] ELSE b[3] - 256))

read_u16(bytes, offset) ==
    IF Len(bytes) < offset + 2 THEN Err("CorruptNCDFile")
    ELSE Ok(bytes[offset + 1] + 256 * bytes[offset + 2])

read_u64(bytes, offset) ==
    IF Len(bytes) < offset + 8 THEN Err("CorruptNCDFile")
    ELSE LET b == [i \in 0..7 |-> bytes[offset + 1 + i]]
         IN  IF \E i \in 3..7 : b[i] # 0 THEN Ok(BEYOND)
             ELSE Ok(b[0] + 256 * b[1] + 65536 * b[2])

read_uvar(bytes, offset, len) ==
    CASE len = 8 -> read_u64(bytes, offset)
      [] len = 4 -> read_u32(bytes, offset)
      [] len = 2 -> read_u16(bytes, offset)
      [] OTHER -> Err("CorruptNCDFile")

\* 0xFFFFFFFF is -1 in the two's-complement image of a u32
all_set(len) ==
    CASE len = 4 -> Ok(-1)
      [] len = 2 -> Ok(65535)
      [] OTHER -> Err("CorruptNCDFile")

\* write_uvar truncates the value to the width: value as u32, value as u16
uvar_bytes(value, len) ==
    CASE len = 4 -> u32_bytes(value)
      [] len = 2 -> u16_bytes(value % 65536)
      [] OTHER -> <<>>

read_bytes(bytes, offset, len) ==
    IF Len(bytes) < offset + len THEN Err("CorruptNCDFile")
    ELSE Ok(SubSeq(bytes, offset + 1, offset + len))

\* offset + length overflows the usize when length is the image of a value near
\* 2^64 and the sum of the images is not negative: a debug build panics on the
\* addition; a release build wraps it to a sum below offset, which passes the
\* check, and the read_bytes that follows panics on a slice whose end is before
\* its start
bounds_check(heap, offset, length) ==
    IF length < 0 /\ offset + length >= 0 THEN Panic
    ELSE IF length < 0 \/ Len(heap) < offset + length THEN Err("CorruptNCDFile")
    ELSE Ok(<<>>)

(***************************************************************************)
(* bitbash.rs: the lesqlite2 variable-length integer.  A read gives the    *)
(* value and the number of bytes taken.                                    *)
(***************************************************************************)
\* lesqlite2_read taking a first byte of 241 for the first of three bytes
lesqlite2_read_short_two(data, start) ==
    IF Len(data) < start THEN Err("CorruptNCDFile")
    ELSE LET len == Len(data) - start
             b(i) == data[start + 1 + i]
         IN  IF len < 1 THEN Err("CorruptNCDFile")
             ELSE IF b(0) < 178 THEN Ok([value |-> b(0), size |-> 1])
             ELSE IF len < 2 THEN Err("CorruptNCDFile")
             ELSE IF b(0) < 241
                  THEN Ok([value |-> 178 + (b(0) - 178) * 256 + b(1), size |-> 2])
             ELSE IF len < 3 THEN Err("CorruptNCDFile")
             ELSE IF b(0) < 250
                  THEN Ok([value |-> 16562 + (b(0) - 242) * 65536 + b(1) * 256 + b(2),
                           size |-> 3])
             ELSE Ok([value |-> BEYOND, size |-> b(0) - 246])

lesqlite2_read(data, start) ==
    IF Len(data) < start THEN Err("CorruptNCDFile")
    ELSE LET len == Len(data) - start
             b(i) == data[start + 1 + i]
         IN  IF len < 1 THEN Err("CorruptNCDFile")
             ELSE IF b(0) < 178 THEN Ok([value |-> b(0), size |-> 1])
             ELSE IF len < 2 THEN Err("CorruptNCDFile")
             ELSE IF b(0) < 242
                  THEN Ok([value |-> 178 + (b(0) - 178) * 256 + b(1), size |-> 2])
             ELSE IF len < 3 THEN Err("CorruptNCDFile")
             ELSE IF b(0) < 250
                  THEN Ok([value |-> 16562 + (b(0) - 242) * 65536 + b(1) * 256 + b(2),
                           size |-> 3])
             ELSE LET n == b(0) - 247
                  IN  IF len <= n THEN Err("CorruptNCDFile")
                      ELSE IF \A i \in 4..n : b(i) = 0
                           THEN Ok([value |-> b(1) + 256 * b(2) + 65536 * b(3),
                                    size |-> n + 1])
                      ELSE IF n = 8 /\ \A i \in 4..n : b(i) = 255
                           THEN Ok([value |-> b(1) + 256 * b(2) + 65536 * b(3) - 16777216,
                                    size |-> n + 1])
                           ELSE Ok([value |-> BEYOND, size |-> n + 1])

\* the number of bytes of value: (64 - leading_zeros + 7) / 8, for values below 2^31
\* and for the images of the values from 2^64 - 2^24 on
bytes_used(value) ==
    IF value < 0 THEN 8
    ELSE IF value < 256 THEN (IF value = 0 THEN 0 ELSE 1)
    ELSE IF value < 65536 THEN 2
    ELSE IF value < 16777216 THEN 3 ELSE 4

lesqlite2_bytes(value) ==
    IF value >= 0 /\ value < C0 THEN <<value>>
    ELSE IF value >= 0 /\ value < C1 THEN <<((value - C0) \div 256) + C0, (value - C0) % 256>>
    ELSE IF value >= 0 /\ value < C2
         THEN <<((value - C1) \div 65536) + 242, ((value - C1) \div 256) % 256,
                (value - C1) % 256>>
    ELSE IF value < 0
         THEN <<bytes_used(value) + 247>>
                  \o [i \in 1..8 |-> IF i <= 3 THEN Byte(value + 16777216, i - 1) ELSE 255]
    ELSE <<bytes_used(value) + 247>> \o [i \in 1..bytes_used(value) |-> Byte(value, i - 1)]


(***************************************************************************)
(* header.rs.  A header is [version, number_of_pages, heap_size,           *)
(* table_size, stamp].  An Option<u32> is <<>> (None) or <<x>> (Some(x)).  *)
(***************************************************************************)
\* NCDHeader::new taking 2-byte pointers for heaps of up to 2^17 bytes
NCDHeader_new_short_pointers(number_of_pages, heap_size, table_size, force_header_size, stamp) ==
    LET min_header_size == IF heap_size + table_size + 4 < 2 * PTR_LIMIT THEN 2 ELSE 4
        header_size == Max(IF force_header_size = <<>> THEN min_header_size
                           ELSE force_header_size[1], min_header_size)
    IN  IF header_size \notin {2, 4} THEN Err("BadConfiguration")
        ELSE Ok([version |-> IF header_size = 2 THEN 1 ELSE 0,
                 number_of_pages |-> number_of_pages,
                 heap_size |-> heap_size,
                 table_size |-> table_size,
                 stamp |-> stamp])

NCDHeader_new(number_of_pages, heap_size, table_size, force_header_size, stamp) ==
    LET min_header_size == IF heap_size + table_size + 4 < PTR_LIMIT THEN 2 ELSE 4
        header_size == Max(IF force_header_size = <<>> THEN min_header_size
                           ELSE force_header_size[1], min_header_size)
    IN  IF header_size \notin {2, 4} THEN Err("BadConfiguration")
        ELSE Ok([version |-> IF header_size = 2 THEN 1 ELSE 0,
                 number_of_pages |-> number_of_pages,
                 heap_size |-> heap_size,
                 table_size |-> table_size,
                 stamp |-> stamp])

pointer_length(h) == IF h.version = 1 THEN 2 ELSE 4
page_size(h) == 4 + h.table_size * pointer_length(h) + h.heap_size
unused_value(h) == all_set(pointer_length(h))
page_offset(h, page_index) == page_size(h) * page_index
table_offset(h, page_index) == page_offset(h, page_index) + h.heap_size
stamp_offset(h, page_index) == page_offset(h, page_index + 1) - 4
structured_size(h) == page_offset(h, h.number_of_pages)

\* the remainder of hash_page_index has a divisor: with table_size > 0 and
\* number_of_pages = 0 the call panics
hash_page_index_defined(h) == h.table_size = 0 \/ h.number_of_pages # 0

hash_page_index(h, hash) ==
    IF h.table_size = 0 THEN 0
    ELSE (hash \div h.table_size) % h.number_of_pages

\* the remainder of hash_page_slot has a divisor: with table_size = 0 the call panics
hash_page_slot_defined(h) == h.table_size # 0

hash_page_slot(h, hash) == hash % h.table_size

\* & 0xFFFFFFFF, computed on the two 16-bit halves
hash_ext(h, hash) ==
    IF h.table_size = 0 \/ h.number_of_pages = 0 THEN 0
    ELSE LET q == (hash \div h.table_size) \div h.number_of_pages
         IN  ((q \div 65536) % 65536) * 65536 + (q % 65536)

\* NCDHeader::write: the 28 header bytes
header_bytes(h) ==
    u32_bytes(MAGIC_NUMBER) \o u32_bytes(h.version) \o u64_bytes(h.number_of_pages)
        \o u32_bytes(h.heap_size) \o u32_bytes(h.table_size) \o u32_bytes(h.stamp)

(***************************************************************************)
(* The read accessor (accessors/std.rs): seek, then take(length) and       *)
(* read_to_end, which gives the bytes the file holds in the range, fewer   *)
(* than length when the file ends before offset + length.                  *)
(***************************************************************************)
accessor_read(f, offset, length) ==
    IF offset < 0 \/ offset >= Len(f) THEN <<>>
    ELSE IF length < 0 THEN SubSeq(f, offset + 1, Len(f))
    ELSE SubSeq(f, offset + 1, Min(Len(f), offset + length))

\* seek(SeekFrom::Start(offset)) fails on an offset above i64::MAX, which the
\* model keeps as a negative image
seek_fails(offset) == offset < 0

\* page_size_check of NCDHeader::read, table_size * pointer_length + heap_size + 4
\* of the u32 fields, divided by 65536: it exceeds 0xFFFFFFFF when this is 65536
\* or more
page_size_check_hi(heap_size, table_size, plen) ==
    ((heap_size \div 65536) % 65536) + ((table_size \div 65536) % 65536) * plen
        + ((heap_size % 65536) + (table_size % 65536) * plen + 4) \div 65536

\* NCDHeader::read taking any version for a known one
NCDHeader_read_any_version(f) ==
    LET bytes == accessor_read(f, 0, HEADER_SIZE)
        fields == [i \in {0, 4, 16, 20, 24} |-> read_u32(bytes, i)]
        number_of_pages == read_u64(bytes, 8)
    IN  IF \E i \in DOMAIN fields : ~fields[i].ok THEN Err("CorruptNCDFile")
        ELSE IF ~number_of_pages.ok THEN number_of_pages
        ELSE IF fields[0].v # MAGIC_NUMBER THEN Err("CorruptNCDFile")
        ELSE IF page_size_check_hi(fields[16].v, fields[20].v,
                                   IF fields[4].v = 1 THEN 2 ELSE 4) >= 65536
        THEN Err("CorruptNCDFile")
        ELSE Ok([version |-> fields[4].v, number_of_pages |-> number_of_pages.v,
                 heap_size |-> fields[16].v, table_size |-> fields[20].v,
                 stamp |-> fields[24].v])

\* NCDHeader::read, on the bytes of the accessor's read(0, 28)
NCDHeader_read(f) ==
    LET bytes == accessor_read(f, 0, HEADER_SIZE)
        magic_number == read_u32(bytes, 0)
        version == read_u32(bytes, 4)
        number_of_pages == read_u64(bytes, 8)
        heap_size == read_u32(bytes, 16)
        table_size == read_u32(bytes, 20)
        stamp == read_u32(bytes, 24)
    IN  IF ~magic_number.ok THEN magic_number
        ELSE IF ~version.ok THEN version
        ELSE IF ~number_of_pages.ok THEN number_of_pages
        ELSE IF ~heap_size.ok THEN heap_size
        ELSE IF ~table_size.ok THEN table_size
        ELSE IF ~stamp.ok THEN stamp
        ELSE IF magic_number.v # MAGIC_NUMBER THEN Err("CorruptNCDFile")
        ELSE IF version.v > 1 \/ version.v < 0 THEN Err("CorruptNCDFile")
        ELSE IF page_size_check_hi(heap_size.v, table_size.v,
                                   IF version.v = 1 THEN 2 ELSE 4) >= 65536
        THEN Err("CorruptNCDFile")
        ELSE Ok([version |-> version.v, number_of_pages |-> number_of_pages.v,
                 heap_size |-> heap_size.v, table_size |-> table_size.v,
                 stamp |-> stamp.v])

(***************************************************************************)
(* bitbash.rs, compute_hash: the high 64 bits of murmur3_x64_128.  The     *)
(* model's keys are one byte long and their hashes are small numbers,      *)
(* chosen so that keys share a page, a slot or an ext-hash in the          *)
(* geometries of the model.                                                *)
(***************************************************************************)
K1 == <<1>>
K2 == <<2>>
K3 == <<3>>
Keys == {K1, K2, K3}

compute_hash(key) ==
    CASE key = K1 -> 0
      [] key = K2 -> 1
      [] key = K3 -> 4
      [] OTHER -> 7

(***************************************************************************)
(* read.rs.  An NCDLookupResult is [kind, key, value, offset, size, hash]  *)
(* with kind Internal or External (parse_entry never gives Empty; an       *)
(* empty slot is kind Empty from NCDPage::lookup).  An Option<Vec<u8>> is  *)
(* <<>> (None) or <<v>> (Some(v)).                                         *)
(***************************************************************************)
Internal(k, v) ==
    [kind |-> "Internal", key |-> k, value |-> v, offset |-> 0, size |-> 0, hash |-> 0]
External(o, s, h) ==
    [kind |-> "External", key |-> <<>>, value |-> <<>>, offset |-> o, size |-> s, hash |-> h]
Empty ==
    [kind |-> "Empty", key |-> <<>>, value |-> <<>>, offset |-> 0, size |-> 0, hash |-> 0]

\* parse_entry, external: after ext_offset and ext_length the 4-byte ext-hash
parse_external_length(heap, ext_offset, o2, ext_length) ==
    IF ~ext_length.ok THEN ext_length
    ELSE IF ~bounds_check(heap, o2 + ext_length.v.size, 4).ok
    THEN bounds_check(heap, o2 + ext_length.v.size, 4)
    ELSE Ok(External(ext_offset.v.value, ext_length.v.value,
                     read_u32(heap, o2 + ext_length.v.size).v))

parse_external_offset(heap, o1, ext_offset) ==
    IF ~ext_offset.ok THEN ext_offset
    ELSE parse_external_length(heap, ext_offset, o1 + ext_offset.v.size,
                               lesqlite2_read(heap, o1 + ext_offset.v.size))

\* parse_entry, internal: the key is heap[o1 .. o1 + klen), then the value
parse_internal_value(heap, o1, klen, value_len) ==
    IF ~value_len.ok THEN value_len
    ELSE IF ~bounds_check(heap, o1 + klen + value_len.v.size, value_len.v.value).ok
    THEN bounds_check(heap, o1 + klen + value_len.v.size, value_len.v.value)
    ELSE Ok(Internal(read_bytes(heap, o1, klen).v,
                     read_bytes(heap, o1 + klen + value_len.v.size,
                                value_len.v.value).v))

\* parse_entry after its first lesqlite2_read: 0 marks an external pointer,
\* otherwise the key is key_len - 1 bytes long
parse_entry_key_len(heap, offset, key_len) ==
    IF ~key_len.ok THEN key_len
    ELSE IF key_len.v.value = 0
    THEN parse_external_offset(heap, offset + key_len.v.size,
                               lesqlite2_read(heap, offset + key_len.v.size))
    ELSE IF ~bounds_check(heap, offset + key_len.v.size, key_len.v.value - 1).ok
    THEN bounds_check(heap, offset + key_len.v.size, key_len.v.value - 1)
    ELSE parse_internal_value(heap, offset + key_len.v.size, key_len.v.value - 1,
                              lesqlite2_read(heap, offset + key_len.v.size
                                                   + key_len.v.value - 1))

parse_entry(heap, offset) == parse_entry_key_len(heap, offset, lesqlite2_read(heap, offset))

\* NCDLookupEntry
Value(v) == [entry |-> "Value", value |-> v]
Skip == [entry |-> "Skip", value |-> <<>>]
Finish == [entry |-> "Finish", value |-> <<>>]

\* resolve, external: the entry parsed from the bytes read at the pointer
resolve_external(entry, key) ==
    IF ~entry.ok THEN entry
    ELSE IF entry.v.kind = "Internal"
    THEN Ok(IF entry.v.key = key THEN Value(entry.v.value) ELSE Skip)
    ELSE Err("CorruptNCDFile")

\* resolve taking an external entry for the key as soon as the ext-hashes agree,
\* without comparing the key stored in the overflow region
resolve_trust_ext_hash(result, f, h, key) ==
    CASE result.kind = "Internal" ->
           [r |-> Ok(IF key = result.key THEN Value(result.value) ELSE Skip),
            reads |-> <<>>]
      [] result.kind = "Empty" -> [r |-> Ok(Finish), reads |-> <<>>]
      [] result.kind = "External" ->
           IF hash_ext(h, compute_hash(key)) # result.hash
           THEN [r |-> Ok(Skip), reads |-> <<>>]
           ELSE LET bytes == accessor_read(f, result.offset, result.size)
                    entry == parse_entry(bytes, 0)
                IN  [r |-> IF ~entry.ok THEN entry
                           ELSE IF entry.v.kind = "Internal"
                                THEN Ok(Value(entry.v.value))
                           ELSE Err("CorruptNCDFile"),
                     reads |-> << <<result.offset, result.size>> >>]

\* resolve reading the overflow record of every external entry, whatever its
\* ext-hash, and comparing the ext-hashes afterwards
resolve_read_first(result, f, h, key) ==
    CASE result.kind = "Internal" ->
           [r |-> Ok(IF key = result.key THEN Value(result.value) ELSE Skip),
            reads |-> <<>>]
      [] result.kind = "Empty" -> [r |-> Ok(Finish), reads |-> <<>>]
      [] result.kind = "External" ->
           LET bytes == accessor_read(f, result.offset, result.size)
               entry == parse_entry(bytes, 0)
           IN  [r |-> IF hash_ext(h, compute_hash(key)) # result.hash THEN Ok(Skip)
                      ELSE IF ~entry.ok THEN entry
                      ELSE IF entry.v.kind = "Internal"
                           THEN Ok(IF entry.v.key = key THEN Value(entry.v.value)
                                   ELSE Skip)
                      ELSE Err("CorruptNCDFile"),
                reads |-> << <<result.offset, result.size>> >>]

\* NCDLookupResult::resolve: [r, reads], r an NCDLookupEntry or an error, reads
\* the accessor reads it issued, each <<offset, length>>
resolve(result, f, h, key) ==
    CASE result.kind = "Internal" ->
           [r |-> Ok(IF key = result.key THEN Value(result.value) ELSE Skip),
            reads |-> <<>>]
      [] result.kind = "Empty" -> [r |-> Ok(Finish), reads |-> <<>>]
      [] result.kind = "External" ->
           IF hash_ext(h, compute_hash(key)) # result.hash
           THEN [r |-> Ok(Skip), reads |-> <<>>]
           ELSE IF seek_fails(result.offset)
           THEN [r |-> Err("IOError"), reads |-> << <<result.offset, result.size>> >>]
           ELSE [r |-> resolve_external(
                           parse_entry(accessor_read(f, result.offset, result.size), 0),
                           key),
                 reads |-> << <<result.offset, result.size>> >>]

\* NCDPage::read without the comparison of the page's stamp with the header's
NCDPage_read_unchecked(f, h, index) ==
    LET psize == page_size(h)
        bytes == accessor_read(f, psize * index, psize)
        plen == pointer_length(h)
        slot(i) == read_uvar(bytes, h.heap_size + i * plen, plen)
        stamp == read_u32(bytes, psize - 4)
    IN  IF h.table_size = 0
        THEN [r |-> Ok([heap |-> <<>>, table |-> <<>>]), reads |-> <<>>]
        ELSE [r |-> IF \E i \in 0..(h.table_size - 1) : ~slot(i).ok
                    THEN Err("CorruptNCDFile")
                    ELSE IF ~unused_value(h).ok THEN unused_value(h)
                    ELSE IF ~stamp.ok THEN stamp
                    ELSE Ok([heap |-> SubSeq(bytes, 1, h.heap_size),
                             table |-> [i \in 1..h.table_size |->
                                          IF slot(i - 1).v = unused_value(h).v
                                          THEN <<>> ELSE <<slot(i - 1).v>>]]),
              reads |-> << <<psize * index, psize>> >>]

\* NCDPage::read: [r, reads], r an NCDPage [heap, table] or an error; a table
\* entry is <<>> (None) or <<offset>>
NCDPage_read(f, h, index) ==
    LET psize == page_size(h)
        bytes == accessor_read(f, psize * index, psize)
        plen == pointer_length(h)
        slot(i) == read_uvar(bytes, h.heap_size + i * plen, plen)
        stamp == read_u32(bytes, psize - 4)
    IN  IF h.table_size = 0
        THEN [r |-> Ok([heap |-> <<>>, table |-> <<>>]), reads |-> <<>>]
        ELSE [r |-> IF \E i \in 0..(h.table_size - 1) : ~slot(i).ok
                    THEN Err("CorruptNCDFile")
                    ELSE IF ~unused_value(h).ok THEN unused_value(h)
                    ELSE IF ~stamp.ok THEN stamp
                    ELSE IF stamp.v # h.stamp THEN Err("WrongStamp")
                    ELSE Ok([heap |-> SubSeq(bytes, 1, h.heap_size),
                             table |-> [i \in 1..h.table_size |->
                                          IF slot(i - 1).v = unused_value(h).v
                                          THEN <<>> ELSE <<slot(i - 1).v>>]]),
              reads |-> << <<psize * index, psize>> >>]

\* NCDPage::lookup; an offset of 2^31 or more (a negative image) is past the heap
NCDPage_lookup(page, index) ==
    IF index >= Len(page.table) THEN Err("CorruptNCDFile")
    ELSE IF page.table[index + 1] = <<>> THEN Ok(Empty)
    ELSE IF page.table[index + 1][1] < 0 THEN Err("CorruptNCDFile")
    ELSE parse_entry(page.heap, page.table[index + 1][1])

\* NCDPage::scan, from slot hash on: [r, reads, probes], probes the number of
\* slots looked at
RECURSIVE scan_loop(_, _, _, _, _, _, _, _)
\* one turn of the loop of scan: self.lookup(hash)?.resolve(reader, key)?
scan_resolve(found, f, h, key) ==
    IF found.ok THEN resolve(found.v, f, h, key) ELSE [r |-> found, reads |-> <<>>]

\* the match on the resolved entry, and the step to the next slot
scan_resolved(page, f, h, key, hash, first_hash, reads, probes, result) ==
    IF ~result.r.ok
    THEN [r |-> result.r, reads |-> reads \o result.reads, probes |-> probes + 1]
    ELSE IF result.r.v.entry = "Value"
    THEN [r |-> Ok(<<result.r.v.value>>), reads |-> reads \o result.reads,
          probes |-> probes + 1]
    ELSE IF result.r.v.entry = "Finish" \/ (hash + 1) % h.table_size = first_hash
    THEN [r |-> Ok(<<>>), reads |-> reads \o result.reads, probes |-> probes + 1]
    ELSE scan_loop(page, f, h, key, (hash + 1) % h.table_size, first_hash,
                   reads \o result.reads, probes + 1)

scan_loop(page, f, h, key, hash, first_hash, reads, probes) ==
    scan_resolved(page, f, h, key, hash, first_hash, reads, probes,
                  scan_resolve(NCDPage_lookup(page, hash), f, h, key))

scan(page, f, h, key, hash) ==
    IF h.table_size = 0 THEN [r |-> Ok(<<>>), reads |-> <<>>, probes |-> 0]
    ELSE scan_loop(page, f, h, key, hash_page_slot(h, hash), hash_page_slot(h, hash),
                   <<>>, 0)

\* NCDFileReader::lookup with the cached header h on the file f
lookup_scan(reads, found) ==
    [r |-> found.r, reads |-> reads \o found.reads, probes |-> found.probes]

lookup_page(page, f, h, key, hash) ==
    IF ~page.r.ok THEN [r |-> page.r, reads |-> page.reads, probes |-> 0]
    ELSE lookup_scan(page.reads, scan(page.r.v, f, h, key, hash))

lookup(f, h, key) ==
    IF ~hash_page_index_defined(h) THEN [r |-> Panic, reads |-> <<>>, probes |-> 0]
    ELSE lookup_page(NCDPage_read(f, h, hash_page_index(h, compute_hash(key))),
                f, h, key, compute_hash(key))

\* NCDFileReader::get: [r, header, trace]; header is the cached header when get
\* returns and trace what get did, in order: each lookup with its result and each
\* re-read of the header with the stamp read
RECURSIVE get_loop(_, _, _, _)
\* get after NCDHeader::read: WrongStamp when the stamp on disk is the cached one,
\* otherwise the header is replaced and the loop goes round
get_reload(f, h, key, trace, new_header) ==
    IF ~new_header.ok
    THEN [r |-> Err(new_header.e), header |-> h,
          trace |-> Append(trace, [op |-> "header", r |-> Err(new_header.e), stamp |-> 0])]
    ELSE IF new_header.v.stamp = h.stamp
    THEN [r |-> Err("WrongStamp"), header |-> h,
          trace |-> Append(trace, [op |-> "header", r |-> Err(new_header.e),
                                   stamp |-> new_header.v.stamp])]
    ELSE get_loop(f, new_header.v, key,
                  Append(trace, [op |-> "header", r |-> Err(new_header.e),
                                 stamp |-> new_header.v.stamp]))

\* the match on the result of self.lookup(key)
get_found(f, h, key, trace, found) ==
    IF found = Err("WrongStamp")
    THEN get_reload(f, h, key, trace, NCDHeader_read(f))
    ELSE [r |-> found, header |-> h, trace |-> trace]

get_loop(f, h, key, trace) ==
    get_found(f, h, key,
              Append(trace, [op |-> "lookup", r |-> lookup(f, h, key).r, stamp |-> h.stamp]),
              lookup(f, h, key).r)

\* get handing on the WrongStamp of lookup without re-reading the header
get_without_reload(f, h, key) ==
    LET found == lookup(f, h, key)
    IN  [r |-> found.r, header |-> h,
         trace |-> << [op |-> "lookup", r |-> found.r, stamp |-> h.stamp] >>]

get(f, h, key) == get_loop(f, h, key, <<>>)

(***************************************************************************)
(* write.rs.  The state of a write attempt is [file, aux, external_offset] *)
(* with aux the heap_threshold of every page (the AuxDataFile).            *)
(***************************************************************************)
\* seek(offset) then write_all(bytes): a write past the end leaves zeros between
write_at(f, offset, bytes) ==
    IF bytes = <<>> THEN f
    ELSE LET padded == IF Len(f) < offset THEN f \o Fill(0, offset - Len(f)) ELSE f
         IN  SubSeq(padded, 1, offset) \o bytes
                 \o SubSeq(padded, offset + Len(bytes) + 1, Len(padded))

RECURSIVE write_blank_tables_from(_, _, _)
write_blank_tables_from(h, f, page_num) ==
    IF page_num >= h.number_of_pages THEN f
    ELSE write_blank_tables_from(h,
             write_at(f, table_offset(h, page_num),
                      Fill(255, pointer_length(h) * h.table_size) \o u32_bytes(h.stamp)),
             page_num + 1)

\* write_blank_tables starting one page late
write_blank_tables_from_second(h, f) == write_blank_tables_from(h, f, 1)

write_blank_tables(h, f) == write_blank_tables_from(h, f, 0)

\* the truncated file, structured_size blanks, the header, the blank tables
prepare_output_file(h) ==
    write_blank_tables(h, write_at(Fill(0, structured_size(h)), 0, header_bytes(h)))

\* NCDWriteAttempt::new leaving the heap threshold of page 0 at 0
NCDWriteAttempt_new_blank_aux(h) ==
    [file |-> prepare_output_file(h),
     aux |-> [i \in (0..(h.number_of_pages - 1)) \cup {0} |-> 0],
     external_offset |-> 0]

\* NCDWriteAttempt::new
NCDWriteAttempt_new(h) ==
    [file |-> prepare_output_file(h),
     aux |-> [i \in (0..(h.number_of_pages - 1)) \cup {0} |->
                IF i = 0 THEN HEADER_SIZE ELSE 0],
     external_offset |-> 0]

heap_room(h, st, index) == h.heap_size - st.aux[index]

\* add_to_heap refusing a record that exactly fills the heap
add_to_heap_keeping_a_byte(st, h, index, bytes) ==
    IF heap_room(h, st, index) <= Len(bytes)
    THEN [outcome |-> "HeapFull", st |-> st, out |-> 0]
    ELSE [outcome |-> "Ok",
          st |-> [st EXCEPT !.file = write_at(st.file,
                                              page_offset(h, index) + st.aux[index], bytes),
                            !.aux[index] = st.aux[index] + Len(bytes)],
          out |-> st.aux[index]]

\* add_internal and the second half of add_external: [outcome, st, out]
add_to_heap(st, h, index, bytes) ==
    IF heap_room(h, st, index) < Len(bytes)
    THEN [outcome |-> "HeapFull", st |-> st, out |-> 0]
    ELSE [outcome |-> "Ok",
          st |-> [st EXCEPT !.file = write_at(st.file,
                                              page_offset(h, index) + st.aux[index], bytes),
                            !.aux[index] = st.aux[index] + Len(bytes)],
          out |-> st.aux[index]]

add_internal(st, h, index, bytes) == add_to_heap(st, h, index, bytes)

\* add_external_bytes putting the offset within the overflow region into the
\* pointer record, not the offset in the file
add_external_bytes_relative(st, h, bytes) ==
    [st |-> [st EXCEPT !.file = write_at(st.file,
                                         structured_size(h) + st.external_offset, bytes),
                       !.external_offset = st.external_offset + Len(bytes)],
     out |-> st.external_offset]

\* add_external_bytes leaving external_offset where it was
add_external_bytes_without_advance(st, h, bytes) ==
    [st |-> [st EXCEPT !.file = write_at(st.file,
                                         structured_size(h) + st.external_offset, bytes)],
     out |-> structured_size(h) + st.external_offset]

\* add_external_bytes: [st, out], out the offset put into the pointer record
add_external_bytes(st, h, bytes) ==
    [st |-> [st EXCEPT !.file = write_at(st.file,
                                         structured_size(h) + st.external_offset, bytes),
                       !.external_offset = st.external_offset + Len(bytes)],
     out |-> structured_size(h) + st.external_offset]

make_external_pointer(start, size, ext_hash) ==
    <<0>> \o lesqlite2_bytes(start) \o lesqlite2_bytes(size) \o u32_bytes(ext_hash)

add_external(st, h, index, ext_hash, bytes) ==
    LET written == add_external_bytes(st, h, bytes)
        pointer == make_external_pointer(written.out, Len(bytes), ext_hash)
    IN  add_to_heap(written.st, h, index, pointer)

\* add_data sending a record as long as the threshold to the overflow region too
add_data_from_threshold(st, h, threshold, index, ext_hash, bytes) ==
    IF Len(bytes) >= threshold THEN add_external(st, h, index, ext_hash, bytes)
    ELSE add_internal(st, h, index, bytes)

add_data(st, h, threshold, index, ext_hash, bytes) ==
    IF Len(bytes) > threshold THEN add_external(st, h, index, ext_hash, bytes)
    ELSE add_internal(st, h, index, bytes)

\* write_hash: [outcome, file]
RECURSIVE write_hash_loop(_, _, _, _, _, _)
write_hash_loop(h, f, index, hash, first_hash, value) ==
    LET plen == pointer_length(h)
        bytes == SubSeq(f, table_offset(h, index) + 1,
                        table_offset(h, index) + h.table_size * plen)
        entry == read_uvar(bytes, hash * plen, plen)
        next == (hash + 1) % h.table_size
    IN  IF entry.v = unused_value(h).v
        THEN [outcome |-> "Ok",
              file |-> write_at(f, table_offset(h, index) + hash * plen,
                                uvar_bytes(value, plen))]
        ELSE IF next = first_hash THEN [outcome |-> "TableFull", file |-> f]
        ELSE write_hash_loop(h, f, index, next, first_hash, value)

\* write_hash probing from slot 0 whatever the home slot
write_hash_from_first_slot(h, f, index, hash, value) ==
    write_hash_loop(h, f, index, 0, 0, value)

write_hash(h, f, index, hash, value) == write_hash_loop(h, f, index, hash, hash, value)

\* NCDPageWriter::add: the record, then the slot, then the aux data of the page
NCDPageWriter_add(st, h, threshold, index, slot_hash, ext_hash, bytes) ==
    LET data == add_data(st, h, threshold, index, ext_hash, bytes)
        slot == write_hash(h, data.st.file, index, slot_hash, data.out)
    IN  IF data.outcome # "Ok" THEN [outcome |-> data.outcome, st |-> data.st]
        ELSE IF slot.outcome # "Ok"
        THEN [outcome |-> slot.outcome,
              st |-> [data.st EXCEPT !.file = slot.file, !.aux = st.aux]]
        ELSE [outcome |-> "Ok", st |-> [data.st EXCEPT !.file = slot.file]]

\* the serialized internal record of NCDWriteAttempt::add
entry_bytes(key, value) ==
    lesqlite2_bytes(Len(key) + 1) \o key \o lesqlite2_bytes(Len(value)) \o value

\* NCDWriteAttempt::add: [outcome, st]
NCDWriteAttempt_add(st, h, threshold, key, value) ==
    LET hash == compute_hash(key)
    IN  NCDPageWriter_add(st, h, threshold, hash_page_index(h, hash),
                          hash_page_slot(h, hash), hash_ext(h, hash),
                          entry_bytes(key, value))

(***************************************************************************)
(* build.rs.  A configuration gives each f64 as a fraction num/den; the    *)
(* `as u64` and `as u32` casts of the source are the floors taken here.    *)
(***************************************************************************)
\* NCDBuildConfig::new, with the fields a caller overrides
NCDBuildConfig(page, load, wiggle, rebuild, force) ==
    [target_page_size |-> page,
     target_load_factor |-> load,
     heap_wiggle_room |-> wiggle,
     external_trheshold |-> <<1, 10>>,
     rebuild_page_factor |-> rebuild,
     force_header_size |-> force]

\* NCDStats::new
RECURSIVE total_length_of(_)
total_length_of(source) ==
    IF source = <<>> THEN 0
    ELSE Len(Head(source)[1]) + Len(Head(source)[2]) + 6 + total_length_of(Tail(source))

NCDStats_new(source) ==
    [number_of_keys |-> Len(source), total_length |-> total_length_of(source)]

pointer_size_k(config) == IF config.target_page_size < PTR_LIMIT THEN 2 ELSE 4

\* guess_number_of_pages dividing by the whole target page size, without the room
\* kept for the header
guess_number_of_pages_by_page_size(config, stats) ==
    LET f == config.target_load_factor
        w == config.heap_wiggle_room
        total_space_needed ==
            (pointer_size_k(config) * stats.number_of_keys * f[2] * w[2]
                 + w[1] * stats.total_length * f[1]) \div (f[1] * w[2])
    IN  (total_space_needed \div config.target_page_size) + 1

\* floor(k*K/f + w*L) / (S - 28) + 1
guess_number_of_pages(config, stats) ==
    LET f == config.target_load_factor
        w == config.heap_wiggle_room
        total_space_needed ==
            (pointer_size_k(config) * stats.number_of_keys * f[2] * w[2]
                 + w[1] * stats.total_length * f[1]) \div (f[1] * w[2])
        reduced_page_size == config.target_page_size - HEADER_SIZE
    IN  (total_space_needed \div reduced_page_size) + 1

guess_entries_par_page(stats, number_of_pages) ==
    Max(stats.number_of_keys \div number_of_pages, 1)

table_size_guess(config, stats) ==
    LET f == config.target_load_factor
        entries_per_page == guess_entries_par_page(stats, guess_number_of_pages(config, stats))
    IN  ((entries_per_page * f[2]) \div f[1]) + 1

\* the u32 subtractions of the sizing do not underflow
sizing_defined(config, stats) ==
    /\ config.target_page_size > HEADER_SIZE
    /\ \/ stats.number_of_keys = 0
       \/ config.target_page_size
              >= table_size_guess(config, stats) * pointer_size_k(config) + 4

\* initial_header_guess sizing the header of an empty source as of any other
initial_header_guess_always_sized(config, stats, stamp) ==
    LET table_size_entries == table_size_guess(config, stats)
        heap_size == Max(config.target_page_size
                             - table_size_entries * pointer_size_k(config) - 4, HEADER_SIZE)
        e == config.external_trheshold
        header == NCDHeader_new(guess_number_of_pages(config, stats), heap_size,
                                table_size_entries, config.force_header_size, stamp)
    IN  IF header.ok
        THEN Ok(<<header.v, Max((e[1] * heap_size) \div e[2], MIN_THRESHOLD)>>)
        ELSE header

\* initial_header_guess: Ok(<<header, threshold>>) or the error of NCDHeader::new
initial_header_guess(config, stats, stamp) ==
    LET table_size_entries == table_size_guess(config, stats)
        table_size_bytes == table_size_entries * pointer_size_k(config)
        heap_size == Max(config.target_page_size - table_size_bytes - 4, HEADER_SIZE)
        e == config.external_trheshold
        external_minimum == (e[1] * heap_size) \div e[2]
        empty == NCDHeader_new(1, HEADER_SIZE, 0, <<>>, stamp)
        header == NCDHeader_new(guess_number_of_pages(config, stats), heap_size,
                                table_size_entries, config.force_header_size, stamp)
    IN  IF stats.number_of_keys = 0
        THEN (IF empty.ok THEN Ok(<<empty.v, 0>>) ELSE empty)
        ELSE IF header.ok THEN Ok(<<header.v, Max(external_minimum, MIN_THRESHOLD)>>)
        ELSE header

\* make_stamp: the seconds since the epoch, & 0xFFFFFFFF; the times of the model
\* are below 2^31
make_stamp(secs) == ((secs \div 65536) % 65536) * 65536 + (secs % 65536)

\* crank_page_count: new_pages as u64 is the floor of pages * rebuild_page_factor
crank_page_count(header, config) ==
    LET r == config.rebuild_page_factor
        new_pages == (header.number_of_pages * r[1]) \div r[2]
    IN  NCDHeader_new(new_pages, header.heap_size, header.table_size,
                      config.force_header_size, header.stamp)

\* attempt() handing every error of add_all to its caller
attempt_return_every_error(outcome) ==
    CASE outcome = "TableFull" -> "Err(TableFull)"
      [] outcome = "HeapFull" -> "Err(HeapFull)"
      [] outcome = "Ok" -> "Ok(true)"
      [] OTHER -> "Err(IOError)"

\* what attempt() returns and result() then gives, for what add_all returned
attempt_return(outcome) ==
    CASE outcome = "TableFull" -> "Ok(false)"
      [] outcome = "HeapFull" -> "Ok(false)"
      [] outcome = "Ok" -> "Ok(true)"
      [] OTHER -> "Err(IOError)"

attempt_reason(outcome, old) ==
    CASE outcome = "TableFull" -> "table overflow"
      [] outcome = "HeapFull" -> "heap overflow"
      [] outcome = "Ok" -> "summary"
      [] OTHER -> old

(***************************************************************************)
(* The inputs of the model: sources and configurations.                    *)
(***************************************************************************)
\* a value stored internally and one whose record is longer than MIN_THRESHOLD
ShortValue == <<7>>
LongValue == Fill(9, 14)
Values == {ShortValue, LongValue}
Pairs == Keys \X Values

\* every sequence of at most MaxSrcLen pairs: a source may yield a key twice
Sources == UNION {[1..n -> Pairs] : n \in 0..MaxSrcLen}

\* the sources of a run that rebuilds the file: none, one or two pairs, stored
\* internally or externally, on one to three pages
RebuildSources ==
    {<<>>,
     << <<K1, ShortValue>> >>,
     << <<K3, LongValue>> >>,
     << <<K1, LongValue>>, <<K3, ShortValue>> >>}

\* target_page_size 48 or 64 with load factor 1 or the default 0.5, the default
\* wiggle room 1.25 or 0.5, the default rebuild factor 1.2 or 2, pointers forced
\* to 4 bytes or not
Configs ==
    {NCDBuildConfig(48, <<1, 1>>, <<5, 4>>, <<6, 5>>, <<>>),
     NCDBuildConfig(48, <<1, 1>>, <<1, 2>>, <<2, 1>>, <<>>),
     NCDBuildConfig(48, <<1, 1>>, <<5, 4>>, <<2, 1>>, <<4>>),
     NCDBuildConfig(64, <<1, 2>>, <<5, 4>>, <<6, 5>>, <<>>)}

\* the configurations of a run that rebuilds the file: pages of 48, 52 and 64 bytes
RebuildConfigs ==
    {NCDBuildConfig(48, <<1, 1>>, <<5, 4>>, <<6, 5>>, <<>>),
     NCDBuildConfig(48, <<1, 1>>, <<5, 4>>, <<2, 1>>, <<4>>),
     NCDBuildConfig(64, <<1, 2>>, <<5, 4>>, <<6, 5>>, <<>>)}

(***************************************************************************)
(* The state.                                                              *)
(*   file  the bytes of the output file                                    *)
(*   now   the clock make_stamp reads, in seconds                          *)
(*   pc    where the build driver is: nobuild, ready (an NCDBuild exists   *)
(*         and attempt() may be called), adding (inside attempt(), within  *)
(*         add_all), done (attempt() returned Ok(true)), failed (Err)      *)
(*         tampered (bytes of the finished file were changed by others)   *)
(*   bld   the NCDBuild                                                    *)
(*   att   the NCDWriteAttempt of the last attempt(), with what add_all    *)
(*         returned (outcome) and what attempt() returned (ret)            *)
(*   rdr   the NCDFileReader: whether one is open, and its cached header   *)
(*   obs   the last call of the reader and what it returned                *)
(***************************************************************************)
VARIABLES file, now, pc, bld, att, rdr, obs

vars == <<file, now, pc, bld, att, rdr, obs>>

NoHeader == [version |-> 0, number_of_pages |-> 0, heap_size |-> 0, table_size |-> 0,
             stamp |-> 0]

NoObs == [op |-> "none", key |-> <<>>, r |-> Ok(<<>>), reads |-> <<>>, probes |-> 0,
          header |-> NoHeader, trace |-> <<>>]

NoAttempt == [header |-> NoHeader, idx |-> 0, aux |-> <<>>, external_offset |-> 0,
              outcome |-> "none", ret |-> "none"]

Init ==
    /\ file = <<>>
    /\ now = 1
    /\ pc = "nobuild"
    /\ bld = [source |-> <<>>, config |-> NCDBuildConfig(0, <<1, 1>>, <<1, 1>>, <<1, 1>>, <<>>),
              header |-> NoHeader, threshold |-> 0, failure_reason |-> "uninitialized"]
    /\ att = NoAttempt
    /\ rdr = [open |-> FALSE, header |-> NoHeader]
    /\ obs = NoObs

\* NCDBuild::new on a source and a configuration
\* make_stamp reads the clock at time t, not before the last reading
BuildNew(sources, configs, t) ==
    /\ now' = t
    /\ \E config \in configs, source \in sources :
         LET stats == NCDStats_new(source)
             guess == initial_header_guess(config, stats, make_stamp(t))
         IN  /\ sizing_defined(config, stats)
             /\ guess.ok
             /\ bld' = [source |-> source, config |-> config, header |-> guess.v[1],
                        threshold |-> guess.v[2], failure_reason |-> "uninitialized"]
    /\ pc' = "ready"
    /\ att' = NoAttempt
    /\ obs' = NoObs
    /\ UNCHANGED <<file, rdr>>

\* the build of a run that builds the file once
NCDBuild_new ==
    /\ pc = "nobuild"
    /\ BuildNew(Sources, Configs, now)

\* a build of a run that builds the file again and again, on the same path
NCDBuild_rebuild ==
    /\ pc \in {"nobuild", "done", "failed"}
    /\ \E t \in now..MaxTime : BuildNew(RebuildSources, RebuildConfigs, t)

\* attempt(), up to add_all: NCDWriteAttempt::new truncates and lays out the file
AttemptStart ==
    /\ pc = "ready"
    /\ bld.header.number_of_pages <= MaxPages
    /\ \E st \in {NCDWriteAttempt_new(bld.header)} :
           /\ file' = st.file
           /\ att' = [header |-> bld.header, idx |-> 0, aux |-> st.aux,
                      external_offset |-> st.external_offset,
                      outcome |-> "running", ret |-> "running"]
    /\ pc' = "adding"
    /\ obs' = NoObs
    /\ UNCHANGED <<now, bld, rdr>>

\* attempt() ends as add_all returned outcome
AttemptEnd(outcome, f, st) ==
    LET cranked == crank_page_count(bld.header, bld.config)
        overflow == outcome \in {"TableFull", "HeapFull"}
    IN  /\ overflow => cranked.ok
        /\ file' = f
        /\ att' = [att EXCEPT !.aux = st.aux, !.external_offset = st.external_offset,
                              !.outcome = outcome, !.ret = attempt_return(outcome)]
        /\ bld' = [bld EXCEPT !.failure_reason = attempt_reason(outcome, @),
                              !.header = IF overflow THEN cranked.v ELSE @]
        /\ pc' = CASE overflow -> "ready"
                   [] outcome = "Ok" -> "done"
                   [] OTHER -> "failed"

\* add_all takes the next pair of the source: NCDWriteAttempt::add
AttemptAdd ==
    /\ pc = "adding"
    /\ att.idx < Len(bld.source)
    /\ \E added \in {NCDWriteAttempt_add(
                          [file |-> file, aux |-> att.aux,
                           external_offset |-> att.external_offset],
                          att.header, bld.threshold,
                          bld.source[att.idx + 1][1], bld.source[att.idx + 1][2])} :
           IF added.outcome = "Ok"
           THEN /\ file' = added.st.file
                /\ att' = [att EXCEPT !.idx = @ + 1, !.aux = added.st.aux,
                                      !.external_offset = added.st.external_offset]
                /\ UNCHANGED <<pc, bld>>
           ELSE AttemptEnd(added.outcome, added.st.file, added.st)
    /\ UNCHANGED <<now, rdr, obs>>

\* the source is exhausted: add_all flushes and attempt() returns Ok(true)
AttemptFinish ==
    /\ pc = "adding"
    /\ att.idx = Len(bld.source)
    /\ AttemptEnd("Ok", file, [aux |-> att.aux, external_offset |-> att.external_offset])
    /\ UNCHANGED <<now, rdr, obs>>

\* a seek or a write of add_all fails: attempt() returns the I/O error
AttemptIOError ==
    /\ pc = "adding"
    /\ AttemptEnd("IOError", file, [aux |-> att.aux, external_offset |-> att.external_offset])
    /\ UNCHANGED <<now, rdr, obs>>

\* NCDWriteAttempt::new fails before it truncates the file: attempt() returns the
\* I/O error
AttemptNewIOError ==
    /\ pc = "ready"
    /\ bld.header.number_of_pages <= MaxPages
    /\ att' = [NoAttempt EXCEPT !.header = bld.header, !.outcome = "IOError",
                                !.ret = attempt_return("IOError")]
    /\ pc' = "failed"
    /\ obs' = NoObs
    /\ UNCHANGED <<file, now, bld, rdr>>

\* NCDFileReader::new on the file as it is
Reader_new ==
    /\ pc \in {"ready", "done", "tampered"}
    /\ NCDHeader_read(file).ok
    /\ rdr' = [open |-> TRUE, header |-> NCDHeader_read(file).v]
    /\ obs' = NoObs
    /\ UNCHANGED <<file, now, pc, bld, att>>

\* reader.lookup(key)
Reader_lookup ==
    /\ pc \in {"ready", "done", "tampered"}
    /\ rdr.open
    /\ \E key \in Keys : \E found \in {lookup(file, rdr.header, key)} :
             obs' = [op |-> "lookup", key |-> key, r |-> found.r, reads |-> found.reads,
                     probes |-> found.probes, header |-> rdr.header, trace |-> <<>>]
    /\ UNCHANGED <<file, now, pc, bld, att, rdr>>

\* reader.get(key)
Reader_get ==
    /\ pc \in {"ready", "done", "tampered"}
    /\ rdr.open
    /\ \E key \in Keys : \E got \in {get(file, rdr.header, key)} :
             /\ obs' = [op |-> "get", key |-> key, r |-> got.r, reads |-> <<>>,
                        probes |-> 0, header |-> rdr.header, trace |-> got.trace]
             /\ rdr' = [rdr EXCEPT !.header = got.header]
    /\ UNCHANGED <<file, now, pc, bld, att>>

Next ==
    \/ NCDBuild_new
    \/ AttemptStart
    \/ AttemptAdd
    \/ AttemptFinish
    \/ AttemptIOError
    \/ AttemptNewIOError
    \/ Reader_new
    \/ Reader_lookup
    \/ Reader_get

Spec == Init /\ [][Next]_vars

RebuildNext ==
    \/ NCDBuild_rebuild
    \/ AttemptStart
    \/ AttemptAdd
    \/ AttemptFinish
    \/ AttemptIOError
    \/ AttemptNewIOError
    \/ Reader_new
    \/ Reader_lookup
    \/ Reader_get

RebuildSpec == Init /\ [][RebuildNext]_vars

(***************************************************************************)
(* What the claims speak of.                                               *)
(***************************************************************************)
\* the keys a source yields, and the value of the first pair with a key
KeysOf(source) == {source[i][1] : i \in 1..Len(source)}
FirstValue(source, key) ==
    source[CHOOSE i \in 1..Len(source) :
              /\ source[i][1] = key
              /\ \A j \in 1..(i - 1) : source[j][1] # key][2]

\* the last attempt() returned Ok(true), and the last call of the reader was a
\* lookup with the header of the file that attempt wrote
LookupOnBuiltFile ==
    /\ pc = "done"
    /\ obs.op = "lookup"
    /\ obs.header = att.header

\* C1 as stated: on a file built by a successful attempt(), lookup(k) is Some(v)
\* for every pair (k, v) the source yields.
C1_RoundTripEveryPair ==
    LookupOnBuiltFile =>
        \A i \in 1..Len(bld.source) :
            bld.source[i][1] = obs.key => obs.r = Ok(<<bld.source[i][2]>>)

\* C1, amended: on a file built by a successful attempt(), lookup(k) is Some(v)
\* for the first pair (k, v) the source yields with the key k (for every pair when
\* no key is yielded twice), stored internally or externally, whatever the pointer
\* width.
C1_RoundTrip ==
    (LookupOnBuiltFile /\ obs.key \in KeysOf(bld.source)) =>
        obs.r = Ok(<<FirstValue(bld.source, obs.key)>>)

\* an external value is found through 4-byte pointers, on a file of three pairs
C1_Witness ==
    /\ LookupOnBuiltFile
    /\ Len(bld.source) = 3
    /\ pointer_length(att.header) = 4
    /\ obs.key \in KeysOf(bld.source)
    /\ obs.r = Ok(<<LongValue>>)
    /\ Len(obs.reads) = 2

\* the table slot of a page as it lies in the file, and whether it is unused
SlotBytes(f, h, page, slot) ==
    read_bytes(f, table_offset(h, page) + slot * pointer_length(h), pointer_length(h))
SlotUnused(f, h, page, slot) ==
    LET b == SlotBytes(f, h, page, slot)
    IN  b.ok /\ \A i \in 1..Len(b.v) : b.v[i] = 255

\* the slots lookup(key) has to look at: from the home slot of the key upwards,
\* wrapping, up to and including the first unused one, and the whole table when
\* no slot is unused
ProbePath(f, h, key) ==
    LET T    == h.table_size
        page == hash_page_index(h, compute_hash(key))
        home == hash_page_slot(h, compute_hash(key))
        at(n) == (home + n) % T
        unused == {n \in 0..(T - 1) : SlotUnused(f, h, page, at(n))}
        stop == IF unused = {} THEN T - 1
                ELSE CHOOSE n \in unused : \A m \in unused : n <= m
    IN  [n \in 1..(stop + 1) |-> at(n - 1)]

\* C2: on a file built by a successful attempt(), lookup(key) of a key the source
\* never yielded is None, after at most T probes: the probing stops at the first
\* unused slot, or after all T slots when the table of the page is full.
C2_NegativeLookup ==
    (LookupOnBuiltFile /\ obs.key \notin KeysOf(bld.source)) =>
        /\ obs.r = Ok(<<>>)
        /\ obs.probes <= att.header.table_size
        /\ att.header.table_size > 0 =>
               obs.probes = Len(ProbePath(file, att.header, obs.key))

\* an absent key is looked up in a page whose table is full and holds an external
\* entry of another key with the same ext-hash: T probes, one external read
C2_Witness ==
    /\ LookupOnBuiltFile
    /\ obs.key \notin KeysOf(bld.source)
    /\ att.header.table_size > 1
    /\ obs.probes = att.header.table_size
    /\ \A slot \in 0..(att.header.table_size - 1) :
           ~SlotUnused(file, att.header,
                       hash_page_index(att.header, compute_hash(obs.key)), slot)
    /\ Len(obs.reads) = 2
    /\ obs.r = Ok(<<>>)

\* the last call of the reader was get(obs.key), entered with the cached header
\* obs.header and left with rdr.header, on the file as it is now
AfterGet == obs.op = "get"
WrongStamp == Err("WrongStamp")
\* the stamp in the header on disk and the trailing stamp of the page a header
\* selects for a key, as they lie in the file
DiskStamp(f) == read_u32(f, HEADER_SIZE - 4)
PageStamp(f, h, key) == read_u32(f, stamp_offset(h, hash_page_index(h, compute_hash(key))))

\* C3: get returns the result of lookup unchanged unless lookup fails with
\* WrongStamp; then it re-reads the header from disk, returns WrongStamp when the
\* stamp on disk equals the cached one, and otherwise replaces the cached header
\* and runs lookup again. So get returns WrongStamp only when the stamp of the
\* header on disk equals the cached stamp while the stamp of the page differs.
C3_GetSemantics ==
    AfterGet =>
        LET first  == lookup(file, obs.header, obs.key).r
            disk   == NCDHeader_read(file)
            second == lookup(file, disk.v, obs.key).r
        IN  /\ first # WrongStamp => (obs.r = first /\ rdr.header = obs.header)
            /\ (first = WrongStamp /\ disk.ok /\ disk.v.stamp = obs.header.stamp) =>
                   (obs.r = WrongStamp /\ rdr.header = obs.header)
            /\ (first = WrongStamp /\ disk.ok /\ disk.v.stamp # obs.header.stamp) =>
                   (obs.r = second /\ rdr.header = disk.v)
            /\ obs.r = WrongStamp =>
                   /\ DiskStamp(file) = Ok(rdr.header.stamp)
                   /\ PageStamp(file, rdr.header, obs.key).ok
                   /\ PageStamp(file, rdr.header, obs.key).v # rdr.header.stamp

\* get met WrongStamp, read a header with another stamp, and its second lookup
\* found the value
C3_Witness ==
    /\ AfterGet
    /\ Len(obs.trace) = 3
    /\ obs.trace[1].r = WrongStamp
    /\ obs.trace[2].stamp # obs.header.stamp
    /\ rdr.header # obs.header
    /\ obs.r.ok /\ obs.r.v # <<>>

\* C4 as stated: a reader opened on a file A, when the path has since been wholly
\* rewritten by a successful build of B with another stamp, answers get(k) with
\* the value B stores for k (None when B has no k) after exactly one re-read of
\* the header, whatever the geometries of A and B.
C4_StampRecovery ==
    (AfterGet /\ pc = "done" /\ obs.header.stamp # att.header.stamp) =>
        /\ obs.r = IF obs.key \in KeysOf(bld.source)
                   THEN Ok(<<FirstValue(bld.source, obs.key)>>)
                   ELSE Ok(<<>>)
        /\ Len(SelectSeq(obs.trace, LAMBDA t : t.op = "header")) = 1

\* C5: with a table of T > 0 slots, lookup(key) fails with WrongStamp whenever
\* the trailing 4-byte stamp of the page selected for the key, as it lies in the
\* file, differs from the stamp of the cached header; it returns neither a value
\* nor None computed from such a page.
C5_PageStampChecked ==
    (/\ obs.op = "lookup"
     /\ obs.header.table_size > 0
     /\ PageStamp(file, obs.header, obs.key).ok
     /\ PageStamp(file, obs.header, obs.key).v # obs.header.stamp) =>
        obs.r = WrongStamp

\* a lookup through a stale header finds the key's entry in the page, and the
\* page carries another stamp
C5_Witness ==
    /\ obs.op = "lookup"
    /\ obs.header.table_size > 0
    /\ obs.header # att.header
    /\ obs.key \in KeysOf(bld.source)
    /\ PageStamp(file, obs.header, obs.key).ok
    /\ PageStamp(file, obs.header, obs.key).v # obs.header.stamp
    /\ obs.r = WrongStamp

\* a write attempt has prepared the file and is adding, or has ended without an
\* I/O error: the file is as the attempt left it
AttemptPrepared ==
    \/ pc = "adding"
    \/ att.outcome \in {"Ok", "TableFull", "HeapFull"}

\* C6: in every state of a write attempt after preparation, the trailing 4 bytes
\* of every page of the file equal the stamp in the header of the file.
C6_StampConsistency ==
    AttemptPrepared =>
        /\ DiskStamp(file) = Ok(att.header.stamp)
        /\ \A page \in 0..(att.header.number_of_pages - 1) :
               read_u32(file, stamp_offset(att.header, page)) = DiskStamp(file)

\* three pairs are in, one of them in the overflow region, in a file of several
\* pages
C6_Witness ==
    /\ pc = "adding"
    /\ att.idx = 3
    /\ att.external_offset > 0
    /\ att.header.number_of_pages >= 3
    /\ \E page \in 1..(att.header.number_of_pages - 1) : att.aux[page] > 0

\* the least integer not below n * r[1] / r[2]
CeilTimes(n, r) == (n * r[1] + r[2] - 1) \div r[2]

\* C7 as stated: after an attempt that ended with TableFull or HeapFull, the next
\* header has ceil(pages * rebuild_page_factor) pages and the heap size and table
\* size of the attempt.
C7_OverflowRetry ==
    (pc = "ready" /\ att.outcome \in {"TableFull", "HeapFull"}) =>
        /\ bld.header.number_of_pages =
               CeilTimes(att.header.number_of_pages, bld.config.rebuild_page_factor)
        /\ bld.header.heap_size = att.header.heap_size
        /\ bld.header.table_size = att.header.table_size

\* C9: attempt() never returns Err(HeapFull) or Err(TableFull): on TableFull it
\* sets the reason "table overflow" and returns Ok(false), on HeapFull "heap
\* overflow" and Ok(false); it returns Ok(true) when every pair was added; any
\* other error is returned as it is, the header of the builder untouched.
C9_AttemptReturns ==
    /\ att.ret \notin {"Err(HeapFull)", "Err(TableFull)"}
    /\ att.outcome = "TableFull" =>
           (att.ret = "Ok(false)" /\ bld.failure_reason = "table overflow")
    /\ att.outcome = "HeapFull" =>
           (att.ret = "Ok(false)" /\ bld.failure_reason = "heap overflow")
    /\ att.outcome = "Ok" =>
           (att.ret = "Ok(true)" /\ att.idx = Len(bld.source))
    /\ att.outcome = "IOError" =>
           (att.ret = "Err(IOError)" /\ bld.header = att.header)
    /\ att.ret = "Ok(true)" => att.outcome = "Ok"
    /\ att.ret = "Ok(false)" => att.outcome \in {"TableFull", "HeapFull"}

\* an attempt met HeapFull after it had added a pair
C9_Witness ==
    /\ pc = "ready"
    /\ att.outcome = "HeapFull"
    /\ att.idx > 0
    /\ att.ret = "Ok(false)"
    /\ bld.failure_reason = "heap overflow"

\* the retry loop of the caller on its own, with no I/O error: a builder is made
\* for a short source, and whenever attempt() has returned Ok(false) it is called
\* again; an attempt that has started goes on to its end
LiveSources == {source \in Sources : Len(source) <= MaxLiveLen}
NCDBuild_loop == pc = "nobuild" /\ BuildNew(LiveSources, Configs, now)
AttemptLoop == AttemptStart \/ AttemptAdd \/ AttemptFinish
LiveNext ==
    \/ NCDBuild_loop
    \/ AttemptStart
    \/ AttemptAdd
    \/ AttemptFinish
LiveSpec == Init /\ [][LiveNext]_vars /\ WF_vars(AttemptLoop)

\* the builder waits with more pages than the model follows
BeyondMaxPages == pc = "ready" /\ bld.header.number_of_pages > MaxPages

\* C8 as stated: for a source whose every record fits the heap of one page, the
\* loop "repeat attempt() until it returns Ok(true)" comes to a successful
\* attempt after finitely many overflows, also when the first guess is 1 to 4
\* pages.
C8_AttemptLoopTerminates ==
    (pc = "ready") ~> (pc = "done" \/ BeyondMaxPages)

\* the entry a table slot of a page points to, parsed from the bytes of the file
EntryAt(f, h, page, slot) ==
    parse_entry(SubSeq(f, page_offset(h, page) + 1, page_offset(h, page) + h.heap_size),
                read_uvar(f, table_offset(h, page) + slot * pointer_length(h),
                          pointer_length(h)).v).v
SameExtHash(h, key, entry) ==
    entry.kind = "External" /\ entry.hash = hash_ext(h, compute_hash(key))
\* the entry is the key's: an internal record with the key, or a pointer with the
\* key's ext-hash to an overflow record with the key
IsEntryOf(f, h, key, entry) ==
    \/ entry.kind = "Internal" /\ entry.key = key
    \/ /\ SameExtHash(h, key, entry)
       /\ parse_entry(accessor_read(f, entry.offset, entry.size), 0).v.key = key
\* the entries lookup(key) passes, in probe order, up to and including the key's
ProbedEntries(f, h, key) ==
    LET page == hash_page_index(h, compute_hash(key))
        path == ProbePath(f, h, key)
        all  == [n \in 1..Len(path) |->
                   IF SlotUnused(f, h, page, path[n]) THEN Empty
                   ELSE EntryAt(f, h, page, path[n])]
        hits == {n \in 1..Len(all) : IsEntryOf(f, h, key, all[n])}
        last == IF hits = {} THEN Len(all)
                ELSE CHOOSE n \in hits : \A m \in hits : n <= m
    IN  SubSeq(all, 1, last)
PageRead(h, key) ==
    <<page_offset(h, hash_page_index(h, compute_hash(key))), page_size(h)>>
RECURSIVE ExternalReads(_, _, _)
ExternalReads(h, key, entries) ==
    IF entries = <<>> THEN <<>>
    ELSE (IF SameExtHash(h, key, Head(entries))
          THEN << <<Head(entries).offset, Head(entries).size>> >> ELSE <<>>)
         \o ExternalReads(h, key, Tail(entries))

\* C10 as stated: a lookup issues exactly one read, of exactly the selected page,
\* and one further read if and only if the matched entry is external.
C10_OnePageRead ==
    LookupOnBuiltFile =>
        LET entries == IF att.header.table_size = 0 THEN <<>>
                       ELSE ProbedEntries(file, att.header, obs.key)
            matched == IF entries = <<>> THEN Empty ELSE entries[Len(entries)]
        IN  obs.reads = <<PageRead(att.header, obs.key)>>
                        \o (IF /\ matched.kind = "External"
                               /\ IsEntryOf(file, att.header, obs.key, matched)
                            THEN << <<matched.offset, matched.size>> >> ELSE <<>>)

\* C10, amended: on a built file with T > 0 a lookup issues one read of exactly
\* the selected page and then, in probe order, exactly one read of the overflow
\* record of every external entry it passes whose stored ext-hash equals the
\* key's, the matched entry or an earlier entry of another key; with T = 0 it
\* issues no read at all.
C10_ReadsOfLookup ==
    LookupOnBuiltFile =>
        obs.reads = IF att.header.table_size = 0 THEN <<>>
                    ELSE <<PageRead(att.header, obs.key)>>
                         \o ExternalReads(att.header, obs.key,
                                          ProbedEntries(file, att.header, obs.key))

\* a lookup passed an external entry of another key with the key's ext-hash and
\* then found the key's own external entry: a page read and two further reads
C10_Witness ==
    /\ LookupOnBuiltFile
    /\ Len(obs.reads) = 3
    /\ obs.reads[2] # obs.reads[3]
    /\ obs.r = Ok(<<LongValue>>)

(***************************************************************************)
(* The functions of header.rs and bitbash.rs called on their own, as a     *)
(* unit test calls them: one call in a behaviour, of which obs holds the   *)
(* arguments and what it returned.  No file is built.                      *)
(***************************************************************************)
\* heap sizes and table sizes on both sides of the 65536 limit of header.rs:24
HeapSizes == {28, 44, 32768, 60000, 65531, 65532, 70000}
TableSizes == {0, 1, 3, 3000, 16384, 40000}
\* force_header_size: None, the two pointer widths and widths that are neither
ForcedSizes == {<<>>, <<0>>, <<1>>, <<2>>, <<3>>, <<4>>, <<8>>}

\* NCDHeader::new(1, heap_size, table_size, force_header_size, 0)
Call_NCDHeader_new ==
    /\ obs = NoObs
    /\ \E heap_size \in HeapSizes, table_size \in TableSizes, force \in ForcedSizes :
           obs' = [op |-> "NCDHeader_new", heap_size |-> heap_size,
                   table_size |-> table_size, force |-> force,
                   r |-> NCDHeader_new(1, heap_size, table_size, force, 0)]
    /\ UNCHANGED <<file, now, pc, bld, att, rdr>>

\* C11: every header NCDHeader::new returns has 4-byte pointers when its page,
\* 4 + T * pointer_length + H bytes, is 65536 bytes or more, and 2-byte pointers
\* when the page is shorter and 4 was not forced.
C11_PointerWidthRule ==
    (obs.op = "NCDHeader_new" /\ obs.r.ok) =>
        LET p == pointer_length(obs.r.v)
        IN  IF page_size(obs.r.v) >= PTR_LIMIT THEN p = 4
            ELSE p = (IF obs.force = <<4>> THEN 4 ELSE 2)

\* C12: NCDHeader::new fails with BadConfiguration for every forced pointer width
\* other than 2 and 4, whatever the heap size and the table size.
C12_BadForcedWidth ==
    (obs.op = "NCDHeader_new" /\ obs.force \notin {<<>>, <<2>>, <<4>>}) =>
        obs.r = Err("BadConfiguration")


\* C13: for an empty source the header of the builder has one page, a heap of 28
\* bytes and no table slot; attempt() neither overflows nor fails but for an I/O
\* error of the file system, so the first attempt() returns Ok(true); and every
\* lookup on the file it wrote is Ok(None).
C13_EmptySource ==
    (pc # "nobuild" /\ bld.source = <<>>) =>
        /\ bld.header.number_of_pages = 1
        /\ bld.header.heap_size = HEADER_SIZE
        /\ bld.header.table_size = 0
        /\ att.outcome \in {"none", "running", "Ok", "IOError"}
        /\ att.outcome = "Ok" => (att.ret = "Ok(true)" /\ pc = "done")
        /\ obs.op = "lookup" => obs.r = Ok(<<>>)

\* the empty source was built by one attempt() and a key was looked up
C13_Witness ==
    /\ pc = "done"
    /\ bld.source = <<>>
    /\ att.ret = "Ok(true)"
    /\ Len(file) = page_size(att.header)
    /\ obs.op = "lookup"
    /\ obs.r = Ok(<<>>)

\* the u32 fields of a header in a file, as their four bytes: the magic number and
\* two that are not; versions 0 and 1 and four that are neither; heap sizes and
\* table sizes up to 0xFFFFFFFF
MagicFields == {<<254, 192, 0, 78>>, <<254, 192, 0, 79>>, <<78, 0, 192, 254>>}
VersionFields == {<<0, 0, 0, 0>>, <<1, 0, 0, 0>>, <<2, 0, 0, 0>>, <<0, 1, 0, 0>>,
                  <<1, 0, 0, 128>>, <<255, 255, 255, 255>>}
PagesFields == {<<1, 0, 0, 0, 0, 0, 0, 0>>, <<3, 0, 0, 0, 0, 0, 0, 0>>}
HeapFields == {<<28, 0, 0, 0>>, <<0, 0, 0, 128>>, <<251, 255, 255, 255>>,
               <<252, 255, 255, 255>>, <<255, 255, 255, 255>>}
TableFields == {<<0, 0, 0, 0>>, <<2, 0, 0, 0>>, <<0, 0, 0, 64>>, <<255, 255, 255, 127>>}
StampFields == {<<1, 0, 0, 0>>, <<255, 255, 255, 255>>}
\* the header alone, or the header and what follows it in the file
RestOfFile == {<<>>, <<255, 255, 1, 0, 0, 0>>}

HeaderFiles ==
    {magic \o version \o pages \o heap \o table \o stamp \o rest :
         magic \in MagicFields, version \in VersionFields, pages \in PagesFields,
         heap \in HeapFields, table \in TableFields, stamp \in StampFields,
         rest \in RestOfFile}

\* NCDFileReader::new on a file of 28 bytes or more: NCDHeader::read
Call_NCDHeader_read ==
    /\ obs = NoObs
    /\ \E f \in HeaderFiles :
           obs' = [op |-> "NCDHeader_read", f |-> f, r |-> NCDHeader_read(f)]
    /\ UNCHANGED <<file, now, pc, bld, att, rdr>>

\* the number of the little-endian bytes b, divided by 65536 and modulo 65536
HighHalf(b) == b[3] + 256 * b[4]
LowHalf(b) == b[1] + 256 * b[2]
\* 4 + table * plen + heap exceeds 2^32 - 1, for the bytes of the two u32 fields
PageExceedsU32(heap, table, plen) ==
    HighHalf(heap) + plen * HighHalf(table)
        + (LowHalf(heap) + plen * LowHalf(table) + 4) \div 65536 >= 65536

\* C14: NCDHeader::read on 28 bytes or more fails with CorruptNCDFile exactly when
\* the first u32 is not 0x4E00C0FE, or the version is above 1, or 4 + table_size *
\* pointer_length + heap_size exceeds 2^32 - 1; otherwise it gives the header whose
\* fields are the little-endian fields of the file, with 2-byte pointers for
\* version 1 and 4-byte pointers for version 0.
C14_HeaderRead ==
    obs.op = "NCDHeader_read" =>
        LET field(i, n) == SubSeq(obs.f, i + 1, i + n)
            plen == IF field(4, 4) = <<1, 0, 0, 0>> THEN 2 ELSE 4
            corrupt == \/ field(0, 4) # <<254, 192, 0, 78>>
                       \/ field(4, 4) \notin {<<0, 0, 0, 0>>, <<1, 0, 0, 0>>}
                       \/ PageExceedsU32(field(16, 4), field(20, 4), plen)
        IN  IF corrupt THEN obs.r = Err("CorruptNCDFile")
            ELSE /\ obs.r.ok
                 /\ u64_bytes(obs.r.v.number_of_pages) = field(8, 8)
                 /\ u32_bytes(obs.r.v.heap_size) = field(16, 4)
                 /\ u32_bytes(obs.r.v.table_size) = field(20, 4)
                 /\ u32_bytes(obs.r.v.stamp) = field(24, 4)
                 /\ pointer_length(obs.r.v) = plen

\* a header of version 0 whose page is 2^32 - 1 bytes long is read, from a file
\* that goes on after it
C14_Witness ==
    /\ obs.op = "NCDHeader_read"
    /\ obs.r.ok
    /\ Len(obs.f) > HEADER_SIZE
    /\ pointer_length(obs.r.v) = 4
    /\ u32_bytes(obs.r.v.heap_size) = <<251, 255, 255, 255>>
    /\ obs.r.v.table_size = 0


\* the geometries and the hashes of the calls of the hash partition: no table,
\* no page, one and several of both; hashes below, at and above table_size *
\* number_of_pages, and large ones
HashTableSizes == {0, 1, 2, 3, 5}
HashPageCounts == {0, 1, 2, 3}
Hashes == 0..40 \cup {255, 65535, 65536, 16777215, 2147483647}

\* hash_page_index, hash_page_slot and hash_ext of one header on one hash
Call_hash_partition ==
    /\ obs = NoObs
    /\ \E table_size \in HashTableSizes, number_of_pages \in HashPageCounts,
          hash \in Hashes :
           \E h \in {[NoHeader EXCEPT !.table_size = table_size,
                                     !.number_of_pages = number_of_pages]} :
               obs' = [op |-> "hash_partition", header |-> h, hash |-> hash,
                       page_index |-> IF hash_page_index_defined(h)
                                      THEN Ok(hash_page_index(h, hash)) ELSE Panic,
                       page_slot |-> IF hash_page_slot_defined(h)
                                     THEN Ok(hash_page_slot(h, hash)) ELSE Panic,
                       ext |-> Ok(hash_ext(h, hash))]
    /\ UNCHANGED <<file, now, pc, bld, att, rdr>>

\* C15: with T = table_size_entries > 0 and N = number_of_pages > 0, the page of a
\* hash is (hash div T) mod N, its slot hash mod T and its ext-hash the low 32 bits
\* of (hash div T) div N; with T = 0 or N = 0 hash_page_index and hash_ext both
\* return 0 and neither fails.
C15_HashPartition ==
    obs.op = "hash_partition" =>
        LET T == obs.header.table_size
            N == obs.header.number_of_pages
        IN  IF T > 0 /\ N > 0
            THEN /\ obs.page_index = Ok((obs.hash \div T) % N)
                 /\ obs.page_slot = Ok(obs.hash % T)
                 /\ obs.ext.ok
                 /\ obs.ext.v % 65536 = ((obs.hash \div T) \div N) % 65536
                 /\ obs.ext.v \div 65536 = (((obs.hash \div T) \div N) \div 65536) % 65536
            ELSE /\ obs.page_index = Ok(0)
                 /\ obs.ext = Ok(0)


(***************************************************************************)
(* A finished file that is damaged before it is read: bytes after the      *)
(* header are overwritten, or the file is cut short.                       *)
(***************************************************************************)
\* the bytes written over the file: a zero, a pointer or a length past the heap,
\* the all-ones byte, and the lesqlite2 integer 2^64 - 1
TamperRuns == {<<0>>, <<200>>, <<255>>, Fill(255, MAX_LESQLITE2_BYTES)}

\* the build whose file is damaged
NCDBuild_intact ==
    /\ pc = "nobuild"
    /\ BuildNew(RebuildSources, RebuildConfigs, now)

\* bytes of the file after the header are overwritten
Tamper ==
    /\ pc = "done"
    /\ \E run \in TamperRuns : \E pos \in HEADER_SIZE..(Len(file) - Len(run)) :
           file' = write_at(file, pos, run)
    /\ pc' = "tampered"
    /\ UNCHANGED <<now, bld, att, rdr, obs>>

\* the file is cut after the header: a read of a page returns fewer bytes
Truncate ==
    /\ pc = "done"
    /\ \E n \in HEADER_SIZE..(Len(file) - 1) : file' = SubSeq(file, 1, n)
    /\ pc' = "tampered"
    /\ UNCHANGED <<now, bld, att, rdr, obs>>

CorruptNext ==
    \/ NCDBuild_intact
    \/ AttemptStart
    \/ AttemptAdd
    \/ AttemptFinish
    \/ Tamper
    \/ Truncate
    \/ Reader_new
    \/ Reader_lookup

CorruptSpec == Init /\ [][CorruptNext]_vars

\* C16: whatever the bytes of the file after a header that parses, lookup(key)
\* returns Ok(Some(_)), Ok(None), or Err of CorruptNCDFile, WrongStamp or IOError:
\* it never panics.
C16_NoPanic ==
    (pc = "tampered" /\ obs.op = "lookup") =>
        \/ obs.r.ok
        \/ obs.r.e \in {"CorruptNCDFile", "WrongStamp", "IOError"}

(***************************************************************************)
(* Builds whose records are shorter than, as long as and longer than the   *)
(* threshold of the attempt.                                               *)
(***************************************************************************)
\* with a key of one byte, a value whose record is exactly MIN_THRESHOLD bytes long
ThresholdValue == Fill(8, MIN_THRESHOLD - 3)
ThresholdSources ==
    UNION {[1..n -> Keys \X {ShortValue, ThresholdValue, LongValue}] :
               n \in 0..MaxThresholdLen}
\* pages of 64 bytes with a heap of 54, and of 48 bytes with a heap of 40
ThresholdConfigs ==
    {NCDBuildConfig(64, <<1, 2>>, <<5, 4>>, <<6, 5>>, <<>>),
     NCDBuildConfig(48, <<1, 1>>, <<5, 4>>, <<2, 1>>, <<>>)}

NCDBuild_threshold ==
    /\ pc = "nobuild"
    /\ BuildNew(ThresholdSources, ThresholdConfigs, now)

ThresholdNext ==
    \/ NCDBuild_threshold
    \/ AttemptStart
    \/ AttemptAdd
    \/ AttemptFinish

ThresholdSpec == Init /\ [][ThresholdNext]_vars

\* add_all has added a pair and has not failed since: the pair, its serialized
\* internal record, its page and the bytes below the heap threshold of that page
EntryAdded == pc \in {"adding", "done"} /\ att.idx >= 1
AddedKey == bld.source[att.idx][1]
AddedRecord == entry_bytes(AddedKey, bld.source[att.idx][2])
AddedPage == hash_page_index(att.header, compute_hash(AddedKey))
HeapTop(n) ==
    SubSeq(file, page_offset(att.header, AddedPage) + att.aux[AddedPage] - n + 1,
           page_offset(att.header, AddedPage) + att.aux[AddedPage])
\* the pointer record of the added pair for a record at file offset off
AddedPointer(off) ==
    <<0>> \o lesqlite2_bytes(off) \o lesqlite2_bytes(Len(AddedRecord))
        \o u32_bytes(hash_ext(att.header, compute_hash(AddedKey)))
\* the added pair is stored externally: a pointer record is the last record of
\* the heap of its page and gives the place, in the overflow region, of the
\* internal record
StoredExternally ==
    \E off \in structured_size(att.header)..(Len(file) - Len(AddedRecord)) :
        /\ HeapTop(Len(AddedPointer(off))) = AddedPointer(off)
        /\ SubSeq(file, off + 1, off + Len(AddedRecord)) = AddedRecord
\* the internal record is the last record of the heap of its page
StoredInternally == HeapTop(Len(AddedRecord)) = AddedRecord

\* C17: an added entry is stored externally (a pointer record of a zero byte,
\* lesqlite2(offset), lesqlite2(length) and the u32 ext-hash in the heap of its
\* page, the internal record in the overflow region) exactly when its internal
\* record is longer than the threshold of the attempt; otherwise the internal
\* record itself is in the heap of the page.
C17_ExternalThreshold ==
    EntryAdded =>
        /\ att.aux[AddedPage] <= att.header.heap_size
        /\ IF Len(AddedRecord) > bld.threshold
           THEN StoredExternally /\ ~StoredInternally
           ELSE StoredInternally /\ ~StoredExternally

\* a record exactly as long as the threshold was added after a longer one
C17_Witness ==
    /\ EntryAdded
    /\ att.idx = 2
    /\ Len(entry_bytes(bld.source[1][1], bld.source[1][2])) > bld.threshold
    /\ Len(AddedRecord) = bld.threshold
    /\ StoredInternally

\* the bytes of the overflow region before the record of the n-th pair of the
\* source: the records of the earlier pairs that are longer than the threshold
RECURSIVE OverflowBefore(_)
OverflowBefore(n) ==
    IF n <= 1 THEN 0
    ELSE OverflowBefore(n - 1)
         + (IF Len(entry_bytes(bld.source[n - 1][1], bld.source[n - 1][2])) > bld.threshold
            THEN Len(entry_bytes(bld.source[n - 1][1], bld.source[n - 1][2])) ELSE 0)
\* the added pair is stored externally with the pointer record of offset off, and
\* its internal record starts at the file offset at
PointsTo(off, at) ==
    /\ HeapTop(Len(AddedPointer(off))) = AddedPointer(off)
    /\ SubSeq(file, at + 1, at + Len(AddedRecord)) = AddedRecord

\* C18 as stated: the ext_offset of a pointer record is relative to the start of
\* the overflow region: the record starts at file offset page_size *
\* number_of_pages + ext_offset, and the first external record of an attempt has
\* ext_offset = 0.
C18_RelativeOffset ==
    (EntryAdded /\ Len(AddedRecord) > bld.threshold) =>
        PointsTo(OverflowBefore(att.idx),
                 structured_size(att.header) + OverflowBefore(att.idx))

\* C18, amended: the ext_offset of a pointer record is the offset in the file of
\* the internal record: page_size * number_of_pages plus the lengths of the
\* external records written before it in the attempt, so page_size *
\* number_of_pages for the first external record.
C18_AbsoluteOffset ==
    (EntryAdded /\ Len(AddedRecord) > bld.threshold) =>
        PointsTo(structured_size(att.header) + OverflowBefore(att.idx),
                 structured_size(att.header) + OverflowBefore(att.idx))

\* the second external record of an attempt was added, after the first
C18_Witness ==
    /\ EntryAdded
    /\ att.idx = 2
    /\ Len(AddedRecord) > bld.threshold
    /\ OverflowBefore(2) > 0
    /\ Len(file) = structured_size(att.header) + OverflowBefore(2) + Len(AddedRecord)

\* the values written and read back: around the limits 178, 16562 and 540850 of
\* the encoding and the powers of 256, the largest below 2^24, and 2^64 - 2^24,
\* 2^64 - 2 and 2^64 - 1 as their images
Lesqlite2Values ==
    0..300 \cup {16305, 16306, 16561, 16562, 16563, 65535, 65536, 65537, 540849, 540850,
                 540851, 1000000, 16777215, -16777216, -2, -1}
\* the cursor at which the value is written
Lesqlite2Starts == {0, 3}

\* lesqlite2_write(data, start, value) on a zeroed buffer with MAX_LESQLITE2_BYTES
\* bytes from start on, then lesqlite2_read(data, start)
Call_lesqlite2 ==
    /\ obs = NoObs
    /\ \E value \in Lesqlite2Values, start \in Lesqlite2Starts :
           \E data \in {write_at(Fill(0, start + MAX_LESQLITE2_BYTES), start,
                                 lesqlite2_bytes(value))} :
               obs' = [op |-> "lesqlite2", value |-> value, start |-> start,
                       data |-> data, written |-> Len(lesqlite2_bytes(value)),
                       r |-> lesqlite2_read(data, start)]
    /\ UNCHANGED <<file, now, pc, bld, att, rdr>>

\* C19: lesqlite2_write of a u64 into a buffer with 9 free bytes, then
\* lesqlite2_read at the same offset, gives the value back; both move the cursor by
\* the same number of bytes: 1 for a value below 178, 2 below 16562, 3 below 540850
\* and at most 9 otherwise.
C19_Lesqlite2RoundTrip ==
    obs.op = "lesqlite2" =>
        /\ Len(obs.data) = obs.start + MAX_LESQLITE2_BYTES
        /\ obs.r.ok
        /\ obs.r.v.value = obs.value
        /\ obs.r.v.size = obs.written
        /\ obs.written \in (CASE obs.value >= 0 /\ obs.value < 178 -> {1}
                              [] obs.value >= 178 /\ obs.value < 16562 -> {2}
                              [] obs.value >= 16562 /\ obs.value < 540850 -> {3}
                              [] OTHER -> 4..9)

\* 2^64 - 1 is written in nine bytes at offset 3 and read back
C19_Witness ==
    /\ obs.op = "lesqlite2"
    /\ obs.value = -1
    /\ obs.start = 3
    /\ obs.written = 9
    /\ obs.r = Ok([value |-> -1, size |-> 9])


\* the configurations and the statistics of the calls of initial_header_guess:
\* page sizes with 2-byte and 4-byte table pointers; load factors and wiggle rooms
\* that are exact as f64; one to six keys
SizingPageSizes == {48, 64, 128, 65536}
SizingLoadFactors == {<<1, 2>>, <<3, 4>>, <<1, 1>>}
SizingWiggleRooms == {<<1, 2>>, <<5, 4>>}
SizingKeys == 1..6
SizingLengths == {8, 16, 24, 29, 32, 36, 42, 50, 63, 100}
\* force_header_size: None, Some(2) and Some(4)
SizingForced == {<<>>, <<2>>, <<4>>}

\* initial_header_guess on the statistics of a source that is not empty: NCDStats
\* counts 6 bytes and the lengths of the key and the value for each pair
Call_initial_header_guess ==
    /\ obs = NoObs
    /\ \E page \in SizingPageSizes, load \in SizingLoadFactors, wiggle \in SizingWiggleRooms,
          keys \in SizingKeys, length \in SizingLengths, force \in SizingForced :
           \E config \in {NCDBuildConfig(page, load, wiggle, <<6, 5>>, force)},
              stats \in {[number_of_keys |-> keys, total_length |-> length]} :
               /\ length >= 6 * keys
               /\ sizing_defined(config, stats)
               /\ obs' = [op |-> "initial_header_guess", config |-> config,
                          stats |-> stats, r |-> initial_header_guess(config, stats, 0)]
    /\ UNCHANGED <<file, now, pc, bld, att, rdr>>

\* the quotient of a by b, rounded down and rounded up, for a >= 0 and b > 0
FloorDiv(a, b) == a \div b
CeilDiv(a, b) == (a + b - 1) \div b
\* S, f = f[1]/f[2], w = w[1]/w[2], k, K and L of the call
SizingS == obs.config.target_page_size
SizingF == obs.config.target_load_factor
SizingW == obs.config.heap_wiggle_room
SizingPtr == IF SizingS < 65536 THEN 2 ELSE 4
\* (k * K / f + w * L) / (S - 28) as a fraction
SizingNum == SizingPtr * obs.stats.number_of_keys * SizingF[2] * SizingW[2]
                 + SizingW[1] * obs.stats.total_length * SizingF[1]
SizingDen == SizingF[1] * SizingW[2]

\* C20 as stated: pages = ceil((k*K/f + w*L) / (S - 28)), entries_per_page =
\* max(1, ceil(K / pages)), table_size_entries = ceil(entries_per_page / f) + 1.
C20_SizingCeil ==
    obs.op = "initial_header_guess" =>
        LET pages == CeilDiv(SizingNum, SizingDen * (SizingS - 28))
            entries_per_page == Max(1, CeilDiv(obs.stats.number_of_keys, pages))
        IN  /\ obs.r.ok
            /\ obs.r.v[1].number_of_pages = pages
            /\ obs.r.v[1].table_size = CeilDiv(entries_per_page * SizingF[2], SizingF[1]) + 1

\* C20, amended: pages = floor(floor(k*K/f + w*L) / (S - 28)) + 1,
\* entries_per_page = max(1, floor(K / pages)), table_size_entries =
\* floor(entries_per_page / f) + 1.
C20_SizingFloor ==
    obs.op = "initial_header_guess" =>
        LET pages == FloorDiv(FloorDiv(SizingNum, SizingDen), SizingS - 28) + 1
            entries_per_page == Max(1, FloorDiv(obs.stats.number_of_keys, pages))
        IN  /\ obs.r.ok
            /\ obs.r.v[1].number_of_pages = pages
            /\ obs.r.v[1].table_size = FloorDiv(entries_per_page * SizingF[2], SizingF[1]) + 1

\* a sizing in which the three roundings all matter: (k*K/f + w*L) / (S - 28) is
\* the integer 1, and neither K / pages nor entries_per_page / f is an integer
C20_Witness ==
    /\ obs.op = "initial_header_guess"
    /\ obs.r.ok
    /\ SizingNum = SizingDen * (SizingS - 28)
    /\ obs.r.v[1].number_of_pages = 2
    /\ obs.stats.number_of_keys = 3
    /\ SizingF = <<3, 4>>
    /\ obs.r.v[1].table_size = 2

\* C21 as stated: for a source that is not empty and any configuration, forced
\* pointer width and target page sizes of 65536 or more included, the header
\* chosen by initial_header_guess has page_size() = 4 + T * pointer_length +
\* heap_size equal to the target_page_size of the configuration.
C21_PageSizeIsTarget ==
    (obs.op = "initial_header_guess" /\ obs.r.ok) =>
        page_size(obs.r.v[1]) = obs.config.target_page_size

\* C22 as stated: whenever attempt() rewrites a file that holds a header, as a
\* retry of the same NCDBuild after an overflow or as the attempt of a new
\* NCDBuild on the same path, the stamp of the header it writes differs from the
\* stamp of the header it replaces.
C22_StampChanges ==
    [][(pc = "ready" /\ pc' = "adding" /\ DiskStamp(file).ok) =>
           DiskStamp(file') # DiskStamp(file)]_vars

\* a step of add_all that calls NCDWriteAttempt::add on the next pair of the
\* source and meets no I/O error; the key, the page and the home slot of the pair
AddStep == pc = "adding" /\ att.idx < Len(bld.source) /\ att'.outcome # "IOError"
NextKey == bld.source[att.idx + 1][1]
NextPage == hash_page_index(att.header, compute_hash(NextKey))
NextSlot == hash_page_slot(att.header, compute_hash(NextKey))
\* the add of the step succeeded
Added == att'.idx = att.idx + 1
\* every slot of the page of the next pair is occupied
NextTableFull ==
    \A slot \in 0..(att.header.table_size - 1) :
        ~SlotUnused(file, att.header, NextPage, slot)
\* the first unused slot of that page in the order slot, slot + 1, ... (mod T)
\* from the home slot of the next pair
FirstUnused ==
    LET path == ProbePath(file, att.header, NextKey) IN path[Len(path)]
\* the slots of the file, as pairs of a page and a slot
AllSlots == (0..(att.header.number_of_pages - 1)) \X (0..(att.header.table_size - 1))
\* the step leaves the slots of a set as they are
SlotsUnchanged(slots) ==
    \A s \in slots :
        SlotBytes(file', att.header, s[1], s[2]) = SlotBytes(file, att.header, s[1], s[2])
\* an add that succeeds writes the old heap threshold of the page into the first
\* unused slot and no other slot; an add that fails writes no slot
SlotPlaced ==
    IF Added
    THEN /\ SlotBytes(file', att.header, NextPage, FirstUnused)
                = Ok(uvar_bytes(att.aux[NextPage], pointer_length(att.header)))
         /\ SlotsUnchanged(AllSlots \ {<<NextPage, FirstUnused>>})
    ELSE SlotsUnchanged(AllSlots)

\* C23 as stated: an add writes the page-local heap offset of the entry into the
\* first unused slot in the order slot, slot + 1, ... (mod T) from
\* hash_page_slot(h), leaves every other slot of every page unchanged, and fails
\* with TableFull exactly when all T slots of the page are occupied.
C23_TableFullIffOccupied ==
    [][AddStep => (SlotPlaced /\ (att'.outcome = "TableFull" <=> NextTableFull))]_vars

\* C23, amended: the same placement; an add whose record has been placed in the
\* heap of the page fails with TableFull exactly when all T slots of the page are
\* occupied, and an add whose record finds no room fails with HeapFull whatever
\* the table.
C23_SlotPlacement ==
    [][AddStep =>
          /\ SlotPlaced
          /\ att'.outcome = "TableFull" => NextTableFull
          /\ (NextTableFull /\ att'.outcome # "HeapFull") => att'.outcome = "TableFull"]_vars

\* the second pair of a source that yields a key with home slot 1 twice was
\* added to a table of two slots: slot 1 was taken, the probe wrapped to slot 0
C23_Witness ==
    /\ pc = "adding"
    /\ att.idx = 2
    /\ att.header.table_size = 2
    /\ bld.source[1][1] = AddedKey
    /\ hash_page_slot(att.header, compute_hash(AddedKey)) = 1
    /\ StoredInternally
    /\ SlotBytes(file, att.header, AddedPage, 0)
           = Ok(uvar_bytes(att.aux[AddedPage] - Len(AddedRecord), pointer_length(att.header)))
    /\ ~SlotUnused(file, att.header, AddedPage, 1)

\* the record the next add puts into the heap of its page: the internal record
\* of the pair, or its pointer record when the internal record is longer than
\* the threshold and goes to the end of the overflow region
NextInternal == entry_bytes(NextKey, bld.source[att.idx + 1][2])
NextRecord ==
    IF Len(NextInternal) > bld.threshold
    THEN <<0>> \o lesqlite2_bytes(structured_size(att.header) + att.external_offset)
             \o lesqlite2_bytes(Len(NextInternal))
             \o u32_bytes(hash_ext(att.header, compute_hash(NextKey)))
    ELSE NextInternal
\* the room left in the heap of the page of the next pair
NextRoom == att.header.heap_size - att.aux[NextPage]
\* the record lies in the file at the old heap threshold of its page
RecordWritten ==
    SubSeq(file', page_offset(att.header, NextPage) + att.aux[NextPage] + 1,
           page_offset(att.header, NextPage) + att.aux[NextPage] + Len(NextRecord))
        = NextRecord
\* a slot of the page that was unused now holds the old heap threshold
SlotReceived ==
    \E slot \in 0..(att.header.table_size - 1) :
        /\ SlotUnused(file, att.header, NextPage, slot)
        /\ SlotBytes(file', att.header, NextPage, slot)
               = Ok(uvar_bytes(att.aux[NextPage], pointer_length(att.header)))
\* the heap threshold of the page advances by the length of the record, those
\* of the other pages stay
CursorAdvanced ==
    att'.aux = [att.aux EXCEPT ![NextPage] = @ + Len(NextRecord)]

\* C24 as stated: adding a record of n bytes to page p fails with HeapFull
\* exactly when n > heap_size - heap_threshold(p); otherwise the record is
\* written at page_offset(p) + heap_threshold(p), the slot receives the old
\* heap_threshold(p) and heap_threshold(p) advances by n, the heap cursors of the
\* other pages unchanged.
C24_HeapFullOrPlaced ==
    [][AddStep =>
          /\ att'.outcome = "HeapFull" <=> Len(NextRecord) > NextRoom
          /\ Len(NextRecord) <= NextRoom =>
                 (RecordWritten /\ SlotReceived /\ CursorAdvanced)]_vars

\* C24, amended: the add fails with HeapFull exactly when n > heap_size -
\* heap_threshold(p); otherwise the record is written at page_offset(p) +
\* heap_threshold(p), and, unless every slot of the page is occupied, the slot
\* receives the old heap_threshold(p) and heap_threshold(p) advances by n, the
\* heap cursors of the other pages unchanged; when every slot is occupied the add
\* fails with TableFull, and a failing add leaves every heap cursor as it was.
C24_HeapRoom ==
    [][AddStep =>
          /\ att'.outcome = "HeapFull" <=> Len(NextRecord) > NextRoom
          /\ Len(NextRecord) <= NextRoom =>
                 /\ RecordWritten
                 /\ IF NextTableFull
                    THEN att'.outcome = "TableFull"
                    ELSE Added /\ SlotReceived /\ CursorAdvanced
          /\ ~Added => att'.aux = att.aux]_vars

\* the record of the second pair was added where it exactly fills the heap of
\* its page
C24_Witness ==
    /\ pc = "adding"
    /\ att.idx = 2
    /\ StoredInternally
    /\ att.aux[AddedPage] = att.header.heap_size
    /\ \E slot \in 0..(att.header.table_size - 1) :
           SlotBytes(file, att.header, AddedPage, slot)
               = Ok(uvar_bytes(att.header.heap_size - Len(AddedRecord),
                               pointer_length(att.header)))

\* C25 as stated: after an attempt() that returned Ok(false), the next attempt
\* uses strictly more pages than the failed one, for every page count >= 1 and
\* every rebuild_page_factor > 1.
C25_PagesGrow ==
    (pc = "ready" /\ att.ret = "Ok(false)") =>
        bld.header.number_of_pages > att.header.number_of_pages

(***************************************************************************)
(* A rebuild of the file one write at a time, with a reader that calls     *)
(* get between any two writes.  Further values of pc:                      *)
(*   created   write_zero_length_file and the truncating open are done     *)
(*   blanked   write_blanks_to_file has written structured_size zeros      *)
(*   tables    the header is written; write_blank_tables has written the   *)
(*             table and the stamp of att.idx pages                        *)
(*   external  inside NCDWriteAttempt::add, the record of the next pair    *)
(*             lies in the overflow region                                 *)
(*   record    inside NCDWriteAttempt::add, the record or the pointer      *)
(*             record of the next pair lies in the heap of its page        *)
(* Inside add, att keeps the heap thresholds and the external_offset from  *)
(* before the add: the aux file is written when the add ends.              *)
(***************************************************************************)
\* the datasets written to the path: k1 with a short or a long value, alone or
\* with k3
ConcurrentSources ==
    {<< <<K1, ShortValue>> >>,
     << <<K1, LongValue>>, <<K3, ShortValue>> >>,
     << <<K1, ShortValue>>, <<K3, LongValue>> >>}
\* with the second configuration the first attempt on the third dataset ends in
\* HeapFull and the next one succeeds
ConcurrentConfigs ==
    {NCDBuildConfig(48, <<1, 1>>, <<5, 4>>, <<2, 1>>, <<>>),
     NCDBuildConfig(48, <<1, 1>>, <<1, 2>>, <<2, 1>>, <<>>),
     NCDBuildConfig(64, <<1, 2>>, <<5, 4>>, <<6, 5>>, <<>>)}

\* NCDBuild::new, at first or after a finished build, on the same path
NCDBuild_concurrent ==
    /\ pc \in {"nobuild", "done"}
    /\ \E t \in now..MaxTime : BuildNew(ConcurrentSources, ConcurrentConfigs, t)

\* NCDWriteAttempt::new opening the file as it is, without truncating it
Open_without_truncate ==
    /\ pc = "ready"
    /\ bld.header.number_of_pages <= MaxPages
    /\ file' = file
    /\ att' = [header |-> bld.header, idx |-> 0, aux |-> NCDWriteAttempt_new(bld.header).aux,
               external_offset |-> 0, outcome |-> "running", ret |-> "running"]
    /\ pc' = "created"
    /\ obs' = NoObs
    /\ UNCHANGED <<now, bld, rdr>>

\* NCDWriteAttempt::new: write_zero_length_file, and the truncating open of
\* prepare_output_file, leave an empty file
Write_zero_length_file ==
    /\ pc = "ready"
    /\ bld.header.number_of_pages <= MaxPages
    /\ file' = <<>>
    /\ att' = [header |-> bld.header, idx |-> 0, aux |-> NCDWriteAttempt_new(bld.header).aux,
               external_offset |-> 0, outcome |-> "running", ret |-> "running"]
    /\ pc' = "created"
    /\ obs' = NoObs
    /\ UNCHANGED <<now, bld, rdr>>

\* write_blanks_to_file: one write_all, the files of the model being shorter than
\* a block
Write_blanks_to_file ==
    /\ pc = "created"
    /\ file' = write_at(file, 0, Fill(0, structured_size(att.header)))
    /\ pc' = "blanked"
    /\ UNCHANGED <<now, bld, att, rdr, obs>>

\* NCDHeader::write
Write_header ==
    /\ pc = "blanked"
    /\ file' = write_at(file, 0, header_bytes(att.header))
    /\ pc' = "tables"
    /\ UNCHANGED <<now, bld, att, rdr, obs>>

\* write_blank_tables, one page: the unused slots and the stamp
Write_blank_table ==
    /\ pc = "tables"
    /\ file' = write_at(file, table_offset(att.header, att.idx),
                        Fill(255, pointer_length(att.header) * att.header.table_size)
                            \o u32_bytes(att.header.stamp))
    /\ IF att.idx + 1 < att.header.number_of_pages
       THEN att' = [att EXCEPT !.idx = @ + 1] /\ pc' = "tables"
       ELSE att' = [att EXCEPT !.idx = 0] /\ pc' = "adding"
    /\ UNCHANGED <<now, bld, rdr, obs>>

\* the state of the attempt and the next pair of the source, inside add_all
AttemptState == [file |-> file, aux |-> att.aux, external_offset |-> att.external_offset]
SourceKey == bld.source[att.idx + 1][1]
SourceRecord == entry_bytes(SourceKey, bld.source[att.idx + 1][2])
SourcePage == hash_page_index(att.header, compute_hash(SourceKey))

\* add_external_bytes of the add of the next pair
Write_external_bytes ==
    /\ pc = "adding"
    /\ att.idx < Len(bld.source)
    /\ Len(SourceRecord) > bld.threshold
    /\ file' = add_external_bytes(AttemptState, att.header, SourceRecord).st.file
    /\ pc' = "external"
    /\ UNCHANGED <<now, bld, att, rdr, obs>>

\* add_internal, or the rest of add_external: the write into the heap of the page
Write_record ==
    /\ \/ pc = "external"
       \/ pc = "adding" /\ att.idx < Len(bld.source) /\ Len(SourceRecord) <= bld.threshold
    /\ \E data \in {add_data(AttemptState, att.header, bld.threshold, SourcePage,
                             hash_ext(att.header, compute_hash(SourceKey)), SourceRecord)} :
           IF data.outcome = "Ok"
           THEN file' = data.st.file /\ pc' = "record" /\ UNCHANGED <<att, bld>>
           ELSE AttemptEnd(data.outcome, data.st.file, data.st)
    /\ UNCHANGED <<now, rdr, obs>>

\* write_hash and the write of the aux data: the add of the pair ends
Write_slot ==
    /\ pc = "record"
    /\ \E added \in {NCDWriteAttempt_add(AttemptState, att.header, bld.threshold,
                                         SourceKey, bld.source[att.idx + 1][2])} :
           IF added.outcome = "Ok"
           THEN /\ file' = added.st.file
                /\ att' = [att EXCEPT !.idx = @ + 1, !.aux = added.st.aux,
                                      !.external_offset = added.st.external_offset]
                /\ pc' = "adding"
                /\ UNCHANGED bld
           ELSE AttemptEnd(added.outcome, added.st.file, added.st)
    /\ UNCHANGED <<now, rdr, obs>>

\* NCDFileReader::new on the file as it is, whatever the writer is doing
Concurrent_new ==
    /\ pc # "nobuild"
    /\ NCDHeader_read(file).ok
    /\ rdr' = [open |-> TRUE, header |-> NCDHeader_read(file).v]
    /\ obs' = NoObs
    /\ UNCHANGED <<file, now, pc, bld, att>>

\* reader.get(key) between two writes of the writer; at is where the writer was
Concurrent_get ==
    /\ rdr.open
    /\ \E key \in Keys : \E got \in {get(file, rdr.header, key)} :
             /\ obs' = [op |-> "get", key |-> key, r |-> got.r, reads |-> <<>>,
                        probes |-> 0, header |-> rdr.header, trace |-> got.trace,
                        at |-> pc]
             /\ rdr' = [rdr EXCEPT !.header = got.header]
    /\ UNCHANGED <<file, now, pc, bld, att>>

ConcurrentNext ==
    \/ NCDBuild_concurrent
    \/ Write_zero_length_file
    \/ Write_blanks_to_file
    \/ Write_header
    \/ Write_blank_table
    \/ Write_external_bytes
    \/ Write_record
    \/ Write_slot
    \/ AttemptFinish
    \/ Concurrent_new
    \/ Concurrent_get

ConcurrentSpec == Init /\ [][ConcurrentNext]_vars

\* the writer is inside an attempt: between its first write and its return
Writing == {"created", "blanked", "tables", "adding", "external", "record"}
\* the values the datasets written to the path give a key
ValuesOf(key) ==
    UNION {{source[i][2] : i \in {j \in 1..Len(source) : source[j][1] = key}} :
               source \in ConcurrentSources}

\* the last call of the reader was a get between two writes of a rebuild, by a
\* reader that held the header of the file the rebuild replaces, for a key of the
\* dataset being written
GetDuringRebuild ==
    /\ obs.op = "get"
    /\ obs.at \in Writing
    /\ obs.header.stamp # att.header.stamp
    /\ obs.key \in KeysOf(bld.source)

\* C26 as stated: a get(k) that runs between the writes of a rebuild, for a key
\* k of the dataset being written, never returns Ok(None) and never a value
\* that is neither the old nor the new value of k: it returns one of the two, or
\* an error.
C26_GetDuringRebuild ==
    GetDuringRebuild =>
        (obs.r.ok => obs.r \in {Ok(<<v>>) : v \in ValuesOf(obs.key)})

\* the source yields a key more than once
YieldsKeyTwice(source) ==
    \E i, j \in 1..Len(source) : i < j /\ source[i][1] = source[j][1]

\* C27 as stated, its first part: when the source yields a key more than once
\* the build still succeeds: the loop that calls attempt() until it returns
\* Ok(true) comes to a successful attempt.
C27_DuplicateKeysBuild ==
    (pc = "ready" /\ YieldsKeyTwice(bld.source)) ~> (pc = "done" \/ BeyondMaxPages)

\* the page of the n-th pair of the source, and the record it puts into the heap
\* of that page: its internal record, or the pointer record to its place in the
\* overflow region
PageOfPair(n) == hash_page_index(att.header, compute_hash(bld.source[n][1]))
HeapRecord(n) ==
    LET internal == entry_bytes(bld.source[n][1], bld.source[n][2])
    IN  IF Len(internal) > bld.threshold
        THEN <<0>> \o lesqlite2_bytes(structured_size(att.header) + OverflowBefore(n))
                 \o lesqlite2_bytes(Len(internal))
                 \o u32_bytes(hash_ext(att.header, compute_hash(bld.source[n][1])))
        ELSE internal
\* the heap records of the first n pairs that went to a page, one after the other
RECURSIVE HeapRecords(_, _)
HeapRecords(page, n) ==
    IF n = 0 THEN <<>>
    ELSE HeapRecords(page, n - 1) \o (IF PageOfPair(n) = page THEN HeapRecord(n) ELSE <<>>)
\* where the heap of a page starts: behind the header on page 0
HeapStart(page) == IF page = 0 THEN HEADER_SIZE ELSE 0

NCDHeader_new_alone == pc = "nobuild" /\ Call_NCDHeader_new

SlotNext ==
    \/ NCDBuild_new
    \/ AttemptStart
    \/ AttemptAdd
    \/ AttemptFinish
    \/ NCDHeader_new_alone

SlotSpec == Init /\ [][SlotNext]_vars

\* the page-local offset at which the record of the n-th pair starts
StartOf(n) == HeapStart(PageOfPair(n)) + Len(HeapRecords(PageOfPair(n), n - 1))
\* the slots that are not empty, and what a slot holds
UsedSlots == {s \in AllSlots : ~SlotUnused(file, att.header, s[1], s[2])}
SlotValue(s) ==
    read_uvar(file, table_offset(att.header, s[1]) + s[2] * pointer_length(att.header),
              pointer_length(att.header)).v
\* heap offsets at the ends of a heap and around the limits of a 2-byte pointer
EdgeOffsets(heap_size) ==
    {o \in {0, HEADER_SIZE, 65534, 65535, 65536, heap_size - 2, heap_size - 1} :
        0 <= o /\ o < heap_size}
\* an offset written with the pointer width of a header reads back as itself and
\* is not the unused sentinel of that width
OffsetFits(h, o) ==
    /\ read_uvar(uvar_bytes(o, pointer_length(h)), 0, pointer_length(h)) = Ok(o)
    /\ unused_value(h) # Ok(o)

\* C29: after any sequence of successful adds in a write attempt, every slot
\* that is not empty holds the page-local start offset of a record written in the
\* heap of its page, distinct slots of a page hold distinct offsets, and the
\* number of slots that are not empty, over all pages, is the number of entries
\* added; no stored offset is truncated by the pointer width or equal to the
\* unused sentinel, as every offset within the heap of a header NCDHeader::new
\* returns fits the pointer width of that header.
C29_SlotsPointToRecords ==
    /\ (pc \in {"adding", "done"}) =>
           /\ \A s \in UsedSlots :
                  \E n \in 1..att.idx : PageOfPair(n) = s[1] /\ SlotValue(s) = StartOf(n)
           /\ \A s, t \in UsedSlots :
                  (s # t /\ s[1] = t[1]) => SlotValue(s) # SlotValue(t)
           /\ Cardinality(UsedSlots) = att.idx
           /\ \A n \in 1..att.idx : OffsetFits(att.header, StartOf(n))
    /\ (obs.op = "NCDHeader_new" /\ obs.r.ok) =>
           \A o \in EdgeOffsets(obs.heap_size) : OffsetFits(obs.r.v, o)

\* three pairs are in, through 4-byte pointers: two slots of page 0 and a slot
\* of another page are taken
C29_Witness ==
    /\ pc = "adding"
    /\ att.idx = 3
    /\ pointer_length(att.header) = 4
    /\ Cardinality(UsedSlots) = 3
    /\ Cardinality({s \in UsedSlots : s[1] = 0}) = 2
    /\ \E s \in UsedSlots : s[1] = 0 /\ SlotValue(s) > HEADER_SIZE

\* NCDHeader::new has made a header with 2-byte pointers and the longest heap
\* they can address
C29_WitnessLongHeap ==
    /\ obs.op = "NCDHeader_new"
    /\ obs.r.ok
    /\ pointer_length(obs.r.v) = 2
    /\ obs.heap_size = 65531

\* the internal records of the first n pairs that are longer than the threshold,
\* one after the other: what an attempt that has added n pairs has written to
\* the overflow region
RECURSIVE OverflowRecords(_)
OverflowRecords(n) ==
    IF n = 0 THEN <<>>
    ELSE OverflowRecords(n - 1)
         \o (IF Len(entry_bytes(bld.source[n][1], bld.source[n][2])) > bld.threshold
             THEN entry_bytes(bld.source[n][1], bld.source[n][2]) ELSE <<>>)
\* the heap cursors of an attempt that has added nothing
FreshCursors ==
    \A page \in 0..(att.header.number_of_pages - 1) : att.aux[page] = HeapStart(page)
\* the heap of every page is blank from its threshold on
BlankAboveThreshold ==
    \A page \in 0..(att.header.number_of_pages - 1) :
        \A i \in (page_offset(att.header, page) + att.aux[page] + 1)
                     ..(page_offset(att.header, page) + att.header.heap_size) :
            file[i] = 0

\* C30: every attempt() starts from a truncated file, with external_offset = 0
\* and fresh heap cursors (28 for page 0, 0 for the others); the file a later
\* attempt leaves holds no record, slot pointer or overflow byte of an earlier
\* attempt: between two adds and after a successful attempt its length is
\* page_size * number_of_pages plus the overflow bytes the attempt itself wrote,
\* its overflow region holds the external records of that attempt, its slots in
\* use are as many as the pairs added, and its heaps are blank above the
\* thresholds.
C30_FreshAttempt ==
    /\ pc = "created" => file = <<>>
    /\ (pc \in {"created", "blanked", "tables"} \/ (pc = "adding" /\ att.idx = 0)) =>
           (att.external_offset = 0 /\ FreshCursors)
    /\ (pc \in {"adding", "done"}) =>
           /\ att.external_offset = Len(OverflowRecords(att.idx))
           /\ Len(file) = structured_size(att.header) + Len(OverflowRecords(att.idx))
           /\ SubSeq(file, structured_size(att.header) + 1, Len(file))
                  = OverflowRecords(att.idx)
           /\ Cardinality(UsedSlots) = att.idx
           /\ BlankAboveThreshold

\* a successful attempt that followed a failed one, on more pages than the first
\* guess, has left a file with an overflow region
C30_Witness ==
    /\ pc = "done"
    /\ att.header.number_of_pages
           > initial_header_guess(bld.config, NCDStats_new(bld.source),
                                  att.header.stamp).v[1].number_of_pages
    /\ att.external_offset > 0
    /\ Len(file) = structured_size(att.header) + att.external_offset

UnitNext ==
    \/ Call_NCDHeader_new
    \/ Call_NCDHeader_read
    \/ Call_hash_partition
    \/ Call_lesqlite2
    \/ Call_initial_header_guess

UnitSpec == Init /\ [][UnitNext]_vars

=============================================================================
